---- MODULE Spec2Model ----
(***************************************************************************)
(* Model of the PHI de-identification / re-identification engine           *)
(* (lib/deidentify), its lazily loaded NER model, and the document         *)
(* processing runs (processFax) that call it.                              *)
(*                                                                         *)
(* Text.  A text is a sequence of tokens.  Consecutive tokens are          *)
(* separated by one blank, except that the punctuation tokens ".", ":"     *)
(* and "," are written directly after the token before them, and the       *)
(* token "\n" is a line break.  Offsets (start, end, index) count tokens   *)
(* from 0 as the source counts characters from 0; a slice [start, end)     *)
(* is the tokens start+1 .. end of the sequence.  A regular expression of  *)
(* the source is modelled by the token sequences it matches on such        *)
(* texts: a character class that matches a whole word becomes a set of     *)
(* tokens, \s+ becomes the blank between two tokens plus any "\n" tokens.  *)
(***************************************************************************)
EXTENDS Integers, Sequences, FiniteSets, TLC

VARIABLES
  text,               \* pipeline: the input text of the call
  pc,                 \* pipeline: "input" | "regex" | "ner" | "restored"
  regexResult,        \* pipeline: result of applyRegexPatterns
  nerResult,          \* pipeline: result of applyNER
  nerEntities,        \* pipeline: what ner(text) returned to applyNER
  restored,           \* pipeline: result of reidentify
  nerPipeline,        \* loader: the cached model handle, "null" before a load succeeds
  nerLoadingPromise,  \* loader: the stored load promise (its number in loads), 0 for null
  loads,              \* loader: the load operations started so far, in order
  calls,              \* loader: the state of each caller of deidentify / preloadNERModel
  env,                \* runs: process.env as the generate endpoint reads it
  runs,               \* runs: the state of each document-processing run
  faxes,              \* runs: the fax records of the database
  backendCalls,       \* runs: the calls the generate endpoint made to AI backends
  reidCall            \* re-identification: the call of reidentify / reidentifySections /
                      \* reidentifyMetadata, its arguments and what it returned

pipeVars == <<text, pc, regexResult, nerResult, nerEntities, restored>>
loaderVars == <<nerPipeline, nerLoadingPromise, loads, calls>>
faxVars == <<env, runs, faxes, backendCalls>>
reidVars == <<reidCall>>

(***************************************************************************)
(* Bounds of the model.                                                    *)
(***************************************************************************)
MaxLen == 4           \* longest input text of the regex pipeline, in tokens
MaxNerLen == 3        \* longest input text of the NER pipeline, in tokens
MaxEntities == 2      \* most tokens the NER model tags in one text
NumCallers == 3       \* concurrent callers of the model loader
NumRuns == 2          \* document-processing runs
NumFaxes == 2         \* fax records the database can hold

(***************************************************************************)
(* Token classes.                                                          *)
(***************************************************************************)
\* words that [A-Z][a-z]+ matches as written (case-sensitive patterns)
CapWords == {"Ann", "Lee", "Dr", "Patient", "Data", "Provider",
             "John", "Smith", "Name", "Date", "Phone", "Chief", "Complaint", "Chest",
             "Account"}
\* words that [A-Z][a-z]+ matches under the i flag: every alphabetic word
AlphaWords == CapWords \cup {"PCP", "DOB", "MRN", "seen", "pain", "x", "days",
                             "yo", "year", "years", "old"}
\* \d{1,2}[-\/]\d{1,2}[-\/]\d{4}
DateTokens == {"01/02/2020", "03/04/2021", "03/15/1985"}
\* \d{1,2}[-\/]\d{1,2}[-\/]\d{2} : a date with a two-digit year
ShortDateTokens == {"01/02/20"}
\* [A-Z]*\d{4,}[A-Z0-9]*
RecordNumberTokens == {"00012345", "5551234567"}
\* \(\d{3}\)\s*\d{3}[-.\s]?\d{4} : one token, although it is written with a blank
ParenPhoneTokens == {"(555) 123-4567"}
\* \d{3}-\d{3}-\d{4}
DashPhoneTokens == {"555-123-4567"}
\* \(?\d{3}\)?[-.\s]?\d{3}[-.\s]?\d{4}
PhoneTokens == ParenPhoneTokens \cup DashPhoneTokens \cup {"5551234567"}
\* \d : a digit token is written directly after a digit token before it, so
\* that a run of digit tokens is one number
DigitTokens == {"0", "1", "2", "3", "4", "5", "6", "7", "8", "9"}
\* \s as a token: the line break
WhiteTokens == {"\n"}
\* [:\s]
SepTokens == {":"} \cup WhiteTokens
\* tokens of one character
OneCharTokens == {".", ":", ",", "\n"} \cup DigitTokens
\* bracketed placeholder tokens
Placeholders == {"[DOB]", "[DATE]", "[PATIENT]", "[PROVIDER]",
                 "[NAME]", "[LOCATION]", "[ORG]", "[ADDRESS]"}

NoText == <<>>

\* text.slice(start, end) with JavaScript's clamping of the two offsets
Slice(t, start, end) ==
  LET s == IF start < 0 THEN 0 ELSE IF start > Len(t) THEN Len(t) ELSE start
      e == IF end < 0 THEN 0 ELSE IF end > Len(t) THEN Len(t) ELSE end
  IN  IF e <= s THEN NoText ELSE SubSeq(t, s + 1, e)

\* a variant of the blank test without the trim
IsBlankWithoutTrim(t) == t = NoText

\* !text || text.trim().length === 0
IsBlank(t) == \A k \in 1..Len(t) : t[k] \in WhiteTokens

\* first position j >= i whose token is not in S (Len(t)+1 when there is none)
SkipSet(t, i, S) ==
  CHOOSE j \in i..(Len(t) + 1) :
    /\ \A k \in i..(j - 1) : t[k] \in S
    /\ (j = Len(t) + 1 \/ t[j] \notin S)

\* the ends e of the runs  word (\s+ word)*  of words of W that start at i
RunEnds(t, i, W) ==
  {e \in i..Len(t) : /\ t[i] \in W
                     /\ t[e] \in W
                     /\ \A k \in i..e : t[k] \in W \cup WhiteTokens}

Max(S) == CHOOSE x \in S : \A y \in S : y <= x

\* haystack.indexOf(needle) on token sequences, 1-based; 0 when absent
IndexOfSub(hay, needle) ==
  LET hits == {k \in 1..(Len(hay) - Len(needle) + 1) :
                 SubSeq(hay, k, k + Len(needle) - 1) = needle}
  IN  IF hits = {} THEN 0 ELSE CHOOSE k \in hits : \A h \in hits : k <= h

\* match.replace(name, by): the first occurrence of name in match is replaced
ReplaceFirst(match, name, by) ==
  LET k == IndexOfSub(match, name)
  IN  IF k = 0 THEN match
      ELSE SubSeq(match, 1, k - 1) \o by \o SubSeq(match, k + Len(name), Len(match))

(***************************************************************************)
(* PHI_PATTERNS: the pattern library, in the order of the source.  The     *)
(* model carries the patterns whose triggering words occur in the texts    *)
(* it checks: labeled MRN, labeled DOB, labeled patient name, labeled      *)
(* provider, "Dr. Name", "PCP Name", the labeled and the parenthesised     *)
(* phone number, the phone number with dashes, the labeled date, the       *)
(* standalone MM/DD/YYYY date, the labeled address, the age of 90 and over *)
(* and the labeled account number.                                         *)
(* A match is [len, g1, g2]: the number of tokens matched (0: no match)    *)
(* and the capture groups.  Parts of a pattern that no text over the       *)
(* vocabularies below can match are left out: label forms of several       *)
(* words, and the middle initial and the parenthesised remark of a         *)
(* patient name.                                                           *)
(***************************************************************************)
NoMatch == [len |-> 0, g1 |-> NoText, g2 |-> NoText]

\* one-token forms of (?:MRN|Medical Record(?:\s*#)?|Chart(?:\s*#)?|Patient ID|ID#?)
MRNLabels == {"MRN", "Chart", "ID"}
\* one-token forms of (?:Phone|Tel|Telephone|Fax|Contact|Ph|Mobile|Cell|Pager|call(?:ed)?|reach(?:ed)?|at)
PhoneLabels == {"Phone", "Tel", "Telephone", "Fax", "Contact", "Ph", "Mobile",
                "Cell", "Pager", "call", "called", "reach", "reached", "at"}
\* one-token forms of (?:Date(?:\s+of)?(?:\s+(?:Service|...))?|DOS|...)
DateLabels == {"Date", "DOS"}
\* one-token forms of (?:y\.?o\.?|year[s]?\s*old|yo|-year-old); "-year-old" is
\* written directly after the number
AgeIndicators == {"yo", "-year-old"}
\* one-token forms of (?:DOB|D\.O\.B\.?|Date of Birth|Birthdate|Birth Date)
DOBLabels == {"DOB", "Birthdate"}
\* (?:Patient(?:\s+Name)?|Pt(?:\s+Name)?|Name|RE|Regarding|Subject)
PatientLabels == {"Patient", "Pt", "Name", "RE", "Regarding", "Subject"}
\* what the lookahead (?:\n|$|MRN|DOB|Date|Sex|Phone|Email|Address|SSN|,) accepts
PatientStops == {"MRN", "DOB", "Date", "Sex", "Phone", "Email", "Address", "SSN", ","}
\* words that contain one of the skipWords of the PATIENT replacement
SkipWordTokens == {"Data", "Metadata", "Information", "Record", "Details",
                   "Demographics", "Address", "Complaint"}
\* one-token forms of (?:Provider|Physician|Attending|Referring...|Consulting...)
ProviderLabels == {"Provider", "Physician", "Attending", "Referring", "Consulting"}
\* the labels named by the lookbehinds of the "Dr. Name" pattern
DrLookbehindLabels == {"Provider", "Physician", "Attending"}
\* (?:MD|DO|NP|PA) of the "Dr. Name" pattern
DrCredentials == {"MD", "DO", "NP", "PA"}

\* the label followed by [:\s]* (by [:\s#]* when hash is TRUE) and one
\* token of Values: the match starts at i, its group is the value token
MatchLabeled(t, i, Labels, hash, Values) ==
  IF t[i] \notin Labels THEN NoMatch
  ELSE LET j == SkipSet(t, i + 1, IF hash THEN SepTokens \cup {"#"} ELSE SepTokens)
       IN  IF j <= Len(t) /\ t[j] \in Values
           THEN [len |-> j - i + 1, g1 |-> <<t[j]>>, g2 |-> NoText]
           ELSE NoMatch

\* /(?:MRN|Medical Record(?:\s*#)?|Chart(?:\s*#)?|Patient ID|ID#?)[:\s#]*([A-Z]*\d{4,}[A-Z0-9]*)/gi
MatchMRN(t, i) == MatchLabeled(t, i, MRNLabels, TRUE, RecordNumberTokens)

\* /(?:DOB|...)[:\s]*(\d{1,2}[-\/]\d{1,2}[-\/]\d{2,4})/gi
MatchDOB(t, i) ==
  IF t[i] \notin DOBLabels THEN NoMatch
  ELSE LET j == SkipSet(t, i + 1, SepTokens)
       IN  IF j <= Len(t) /\ t[j] \in DateTokens \cup ShortDateTokens
           THEN [len |-> j - i + 1, g1 |-> <<t[j]>>, g2 |-> NoText]
           ELSE NoMatch

\* (?=\s*(?:\n|$|MRN|DOB|Date|Sex|Phone|Email|Address|SSN|,)) after token e
PatientLookahead(t, e) ==
  LET n == SkipSet(t, e + 1, WhiteTokens)
  IN  n > Len(t) \/ n > e + 1 \/ t[n] \in PatientStops

\* label[:\s]+([A-Z][a-z]+(?:\s+[A-Z][a-z]+)+)(?=...) with the label ending at le;
\* the i flag makes [A-Z][a-z]+ match any alphabetic word; the greedy name
\* gives words back until the lookahead holds
MatchPatientFrom(t, i, le) ==
  LET s    == SkipSet(t, le + 1, SepTokens)
      ends == IF s > Len(t) THEN {}
              ELSE {e \in RunEnds(t, s, AlphaWords) : e > s /\ PatientLookahead(t, e)}
  IN  IF ends = {} THEN NoMatch
      ELSE [len |-> Max(ends) - i + 1, g1 |-> SubSeq(t, s, Max(ends)), g2 |-> NoText]

\* /(?:Patient(?:\s+Name)?|Pt(?:\s+Name)?|Name|RE|Regarding|Subject)[:\s]+(...)/gim
\* the optional "Name" of the label is tried first, then given back
MatchPATIENT(t, i) ==
  IF t[i] \notin PatientLabels THEN NoMatch
  ELSE LET k    == SkipSet(t, i + 1, WhiteTokens)
           long == IF t[i] \in {"Patient", "Pt"} /\ k <= Len(t) /\ t[k] = "Name"
                   THEN MatchPatientFrom(t, i, k) ELSE NoMatch
       IN  IF long.len > 0 THEN long ELSE MatchPatientFrom(t, i, i)

\* the name and credential part of the labeled provider pattern, the name
\* starting at n: ([A-Z][a-z]+(?:\s+[A-Z][a-z]+)*(?:,?\s*(?:MD|DO|...))?)
\* under the i flag; pre is the position of the optional "Dr." prefix
MatchProviderName(t, i, pre, n) ==
  IF n > Len(t) \/ t[n] \notin AlphaWords THEN NoMatch
  ELSE LET e == Max(RunEnds(t, n, AlphaWords))
           c == SkipSet(t, e + 2, WhiteTokens)
           f == IF e + 1 <= Len(t) /\ t[e + 1] = "," /\ c <= Len(t)
                   /\ t[c] \in {"MD", "DO", "NP", "PA", "RN", "PhD", "ARNP", "FNP", "DNP"}
                THEN c ELSE e
       IN  [len |-> f - i + 1, g1 |-> SubSeq(t, pre, n - 1), g2 |-> SubSeq(t, n, f)]

\* /(?:Provider|...)[:\s]+(Dr\.?\s+)?([A-Z][a-z]+...)/gi : the optional
\* prefix group is tried first and given back when no name follows it
MatchPROVIDER(t, i) ==
  IF t[i] \notin ProviderLabels THEN NoMatch
  ELSE LET s  == SkipSet(t, i + 1, SepTokens)
           d  == IF s + 1 <= Len(t) /\ t[s + 1] = "." THEN s + 2 ELSE s + 1
           n  == SkipSet(t, d, WhiteTokens)
           withDr == IF s <= Len(t) /\ t[s] = "Dr"
                     THEN MatchProviderName(t, i, s, n) ELSE NoMatch
       IN  IF withDr.len > 0 THEN withDr ELSE MatchProviderName(t, i, s, s)

\* (?<!Provider[:\s]+)(?<!Physician[:\s]+)(?<!Attending[:\s]+) before token i
DrLookbehind(t, i) ==
  \E k \in 1..(i - 1) : /\ t[k] \in DrLookbehindLabels
                        /\ \A m \in (k + 1)..(i - 1) : t[m] \in SepTokens

\* ([A-Z][a-z]+(?:\s+[A-Z][a-z]+)?) starting at n: the end of the name
CapNameEnd(t, n) ==
  LET n2 == SkipSet(t, n + 1, WhiteTokens)
  IN  IF n2 <= Len(t) /\ t[n2] \in CapWords THEN n2 ELSE n

\* /(?<!...)\bDr\.\s+([A-Z][a-z]+(?:\s+[A-Z][a-z]+)?(?:,?\s*(?:MD|DO|NP|PA))?)/g
MatchDR(t, i) ==
  LET n == SkipSet(t, i + 2, WhiteTokens)
  IN  IF t[i] = "Dr" /\ i + 1 <= Len(t) /\ t[i + 1] = "."
         /\ n <= Len(t) /\ t[n] \in CapWords /\ ~DrLookbehind(t, i)
      THEN LET e == CapNameEnd(t, n)
               a == IF e + 1 <= Len(t) /\ t[e + 1] = "," THEN e + 2 ELSE e + 1
               c == SkipSet(t, a, WhiteTokens)
               f == IF c <= Len(t) /\ t[c] \in DrCredentials THEN c ELSE e
           IN  [len |-> f - i + 1, g1 |-> SubSeq(t, n, f), g2 |-> NoText]
      ELSE NoMatch

\* /\bPCP\s+(?:Dr\.?\s+)?([A-Z][a-z]+(?:\s+[A-Z][a-z]+)?)/g : the optional
\* "Dr." is tried first; when no capitalised word follows it, it is given
\* back and "Dr" itself is matched as the name
MatchPCP(t, i) ==
  IF t[i] # "PCP" THEN NoMatch
  ELSE LET a == SkipSet(t, i + 1, WhiteTokens)
           b == IF a + 1 <= Len(t) /\ t[a + 1] = "." THEN a + 2 ELSE a + 1
           n == SkipSet(t, b, WhiteTokens)
       IN  IF a <= Len(t) /\ t[a] = "Dr" /\ n <= Len(t) /\ t[n] \in CapWords
           THEN [len |-> CapNameEnd(t, n) - i + 1,
                 g1 |-> SubSeq(t, n, CapNameEnd(t, n)), g2 |-> NoText]
           ELSE IF a <= Len(t) /\ t[a] \in CapWords
           THEN [len |-> CapNameEnd(t, a) - i + 1,
                 g1 |-> SubSeq(t, a, CapNameEnd(t, a)), g2 |-> NoText]
           ELSE NoMatch

\* /(?:Phone|Tel|...|at)[:\s]*(\(?\d{3}\)?[-.\s]?\d{3}[-.\s]?\d{4})/gi
MatchPHONE(t, i) == MatchLabeled(t, i, PhoneLabels, FALSE, PhoneTokens)

\* /\((\d{3})\)\s*(\d{3})[-.\s]?(\d{4})/g
MatchPHONEParen(t, i) ==
  IF t[i] \in ParenPhoneTokens THEN [len |-> 1, g1 |-> <<t[i]>>, g2 |-> NoText]
  ELSE NoMatch

\* /\b(\d{3}-\d{3}-\d{4})\b/g
MatchPHONEDashes(t, i) ==
  IF t[i] \in DashPhoneTokens THEN [len |-> 1, g1 |-> <<t[i]>>, g2 |-> NoText]
  ELSE NoMatch

\* /(?:Account|Acct|Policy|Member ID|...|Claim)[:\s#]*([A-Z0-9-]{6,})/gi , the
\* value a number
MatchACCOUNT(t, i) ==
  MatchLabeled(t, i, {"Account", "Acct", "Policy", "Claim"}, TRUE,
               RecordNumberTokens \cup DashPhoneTokens)

\* /(?:Date(?:\s+of)?(?:\s+(?:Service|...))?|DOS|...)[:\s]*(\d{1,2}[-\/]\d{1,2}[-\/]\d{2,4})/gi
MatchDATELabeled(t, i) ==
  MatchLabeled(t, i, DateLabels, FALSE, DateTokens \cup ShortDateTokens)

\* the last token of the line that token s is on: [^\n]+ from s on
LineEnd(t, s) ==
  CHOOSE e \in s..Len(t) :
    /\ \A k \in s..e : t[k] \notin WhiteTokens
    /\ (e = Len(t) \/ t[e + 1] \in WhiteTokens)

\* /(?:Address|Patient Address|Mailing Address)[:\s]+([^\n]+)/gi , when a
\* value follows the separators
MatchADDRESS(t, i) ==
  IF t[i] # "Address" \/ SkipSet(t, i + 1, SepTokens) > Len(t) THEN NoMatch
  ELSE [len |-> LineEnd(t, SkipSet(t, i + 1, SepTokens)) - i + 1,
        g1 |-> SubSeq(t, SkipSet(t, i + 1, SepTokens),
                      LineEnd(t, SkipSet(t, i + 1, SepTokens))),
        g2 |-> NoText]

\* the end of the age indicator that starts at token j, 0 when there is none:
\* "yo" and "-year-old" are one token, "year old" and "years old" are two
\* tokens with \s* between them
AgeIndicatorEnd(t, j) ==
  IF j > Len(t) THEN 0
  ELSE IF t[j] \in AgeIndicators THEN j
  ELSE IF t[j] \in {"year", "years"} /\ SkipSet(t, j + 1, WhiteTokens) <= Len(t)
          /\ t[SkipSet(t, j + 1, WhiteTokens)] = "old"
       THEN SkipSet(t, j + 1, WhiteTokens)
  ELSE 0

\* a variant whose two-digit form is [89]\d
AgeDigitsFromEighty(t, i) ==
  IF t[i] \in {"8", "9"} /\ i + 1 <= Len(t) /\ t[i + 1] \in DigitTokens THEN 2
  ELSE IF t[i] = "1" /\ i + 2 <= Len(t) /\ t[i + 1] \in DigitTokens
          /\ t[i + 2] \in DigitTokens THEN 3
  ELSE 0

\* (9\d|1\d{2}) at token i: the number of digit tokens it takes, 0 when the
\* digits at i are not of this form
AgeDigits(t, i) ==
  IF t[i] = "9" /\ i + 1 <= Len(t) /\ t[i + 1] \in DigitTokens THEN 2
  ELSE IF t[i] = "1" /\ i + 2 <= Len(t) /\ t[i + 1] \in DigitTokens
          /\ t[i + 2] \in DigitTokens THEN 3
  ELSE 0

\* the age match whose number takes d digit tokens from token i on
MatchAGEFrom(t, i, d) ==
  IF d = 0 THEN NoMatch
  ELSE IF AgeIndicatorEnd(t, SkipSet(t, i + d, WhiteTokens)) = 0 THEN NoMatch
  ELSE [len |-> AgeIndicatorEnd(t, SkipSet(t, i + d, WhiteTokens)) - i + 1,
        g1 |-> SubSeq(t, i, i + d - 1), g2 |-> NoText]

\* /\b(9\d|1\d{2})\s*(?:y\.?o\.?|year[s]?\s*old|yo|-year-old)\b/gi : the \b
\* before the number fails directly after a digit
MatchAGE(t, i) ==
  IF i > 1 /\ t[i - 1] \in DigitTokens THEN NoMatch
  ELSE MatchAGEFrom(t, i, AgeDigits(t, i))

\* /\b(\d{1,2}[-\/]\d{1,2}[-\/]\d{4})\b/g
MatchDATE(t, i) ==
  IF t[i] \in DateTokens THEN [len |-> 1, g1 |-> <<t[i]>>, g2 |-> NoText]
  ELSE NoMatch

PHI_PATTERNS ==
  << [type |-> "MRN",      pattern |-> "MRN_LABELED"],
     [type |-> "DOB",      pattern |-> "DOB_NUMERIC"],
     [type |-> "PATIENT",  pattern |-> "PATIENT_LABELED"],
     [type |-> "PROVIDER", pattern |-> "PROVIDER_LABELED"],
     [type |-> "PROVIDER", pattern |-> "PROVIDER_DR"],
     [type |-> "PROVIDER", pattern |-> "PROVIDER_PCP"],
     [type |-> "PHONE",    pattern |-> "PHONE_LABELED"],
     [type |-> "PHONE",    pattern |-> "PHONE_PAREN"],
     [type |-> "PHONE",    pattern |-> "PHONE_DASHES"],
     [type |-> "DATE",     pattern |-> "DATE_LABELED"],
     [type |-> "DATE",     pattern |-> "DATE_MDY"],
     [type |-> "ADDRESS",  pattern |-> "ADDRESS_LABELED"],
     [type |-> "AGE_90+",  pattern |-> "AGE_90"],
     [type |-> "ACCOUNT",  pattern |-> "ACCOUNT_LABELED"] >>

\* the match of pattern p that starts at token i of t
MatchAt(p, t, i) ==
  CASE p = "MRN_LABELED"      -> MatchMRN(t, i)
    [] p = "DOB_NUMERIC"      -> MatchDOB(t, i)
    [] p = "PATIENT_LABELED"  -> MatchPATIENT(t, i)
    [] p = "PROVIDER_LABELED" -> MatchPROVIDER(t, i)
    [] p = "PROVIDER_DR"      -> MatchDR(t, i)
    [] p = "PROVIDER_PCP"     -> MatchPCP(t, i)
    [] p = "PHONE_LABELED"    -> MatchPHONE(t, i)
    [] p = "PHONE_PAREN"      -> MatchPHONEParen(t, i)
    [] p = "PHONE_DASHES"     -> MatchPHONEDashes(t, i)
    [] p = "DATE_LABELED"     -> MatchDATELabeled(t, i)
    [] p = "DATE_MDY"         -> MatchDATE(t, i)
    [] p = "ADDRESS_LABELED"  -> MatchADDRESS(t, i)
    [] p = "AGE_90"           -> MatchAGE(t, i)
    [] p = "ACCOUNT_LABELED"  -> MatchACCOUNT(t, i)

\* the replacement of a match: a constant string, or the pattern's function
\* of the matched text and its groups
ReplacementOf(p, matched, m) ==
  CASE p = "MRN_LABELED"      -> <<"[MRN]">>
    [] p = "DOB_NUMERIC"      -> <<"DOB", ":", "[DOB]">>
    [] p = "PATIENT_LABELED"  ->
         IF \E k \in 1..Len(m.g1) : m.g1[k] \in SkipWordTokens
         THEN matched
         ELSE ReplaceFirst(matched, m.g1, <<"[PATIENT]">>)
    [] p = "PROVIDER_LABELED" ->
         ReplaceFirst(matched, m.g1 \o m.g2, m.g1 \o <<"[PROVIDER]">>)
    [] p = "PROVIDER_DR"      -> <<"Dr", ".", "[PROVIDER]">>
    [] p = "PROVIDER_PCP"     -> <<"PCP", "[PROVIDER]">>
    [] p = "PHONE_LABELED"    -> <<"[PHONE]">>
    [] p = "PHONE_PAREN"      -> <<"[PHONE]">>
    [] p = "PHONE_DASHES"     -> <<"[PHONE]">>
    [] p = "DATE_LABELED"     -> ReplaceFirst(matched, m.g1, <<"[DATE]">>)
    [] p = "DATE_MDY"         -> <<"[DATE]">>
    [] p = "ADDRESS_LABELED"  -> <<"Address", ":", "[ADDRESS]">>
    [] p = "AGE_90"           -> <<"[AGE 90+]">>
    [] p = "ACCOUNT_LABELED"  -> <<"[ACCOUNT]">>

(***************************************************************************)
(* applyRegexPatterns: every pattern is scanned (regex.exec) against the   *)
(* text the function was given, one record per match, and substituted      *)
(* (String.replace with the g flag) in the accumulated result.             *)
(***************************************************************************)
RECURSIVE ExecAll(_, _, _)
\* the successive matches of regex.exec from token i on: [index, matched, m]
ExecAll(p, t, i) ==
  IF i > Len(t) THEN <<>>
  ELSE LET m == MatchAt(p, t, i)
       IN  IF m.len = 0 THEN ExecAll(p, t, i + 1)
           ELSE <<[index |-> i - 1, matched |-> SubSeq(t, i, i + m.len - 1), m |-> m]>>
                \o ExecAll(p, t, i + m.len)

RECURSIVE ReplaceAll(_, _, _)
\* t.replace(regex, replacement) from token i on
ReplaceAll(p, t, i) ==
  IF i > Len(t) THEN <<>>
  ELSE LET m == MatchAt(p, t, i)
       IN  IF m.len = 0 THEN <<t[i]>> \o ReplaceAll(p, t, i + 1)
           ELSE ReplacementOf(p, SubSeq(t, i, i + m.len - 1), m)
                \o ReplaceAll(p, t, i + m.len)

\* the records pushed while pattern number k is scanned against scanned
RecordsOf(k, scanned) ==
  LET ms == ExecAll(PHI_PATTERNS[k].pattern, scanned, 1)
  IN  [j \in 1..Len(ms) |->
         [type        |-> PHI_PATTERNS[k].type,
          original    |-> ms[j].matched,
          replacement |-> ReplacementOf(PHI_PATTERNS[k].pattern, ms[j].matched, ms[j].m),
          start       |-> ms[j].index,
          end         |-> ms[j].index + Len(ms[j].matched)]]

RECURSIVE ApplyFromScanningResult(_, _, _, _)
\* a variant of the loop that scans each pattern against the accumulated
\* result instead of the text the function was given
ApplyFromScanningResult(k, input, result, redactions) ==
  IF k > Len(PHI_PATTERNS) THEN [text |-> result, redactions |-> redactions]
  ELSE ApplyFromScanningResult(k + 1, input,
                 ReplaceAll(PHI_PATTERNS[k].pattern, result, 1),
                 redactions \o RecordsOf(k, result))

RECURSIVE ApplyFrom(_, _, _, _)
\* the loop over PHI_PATTERNS from pattern number k on
ApplyFrom(k, input, result, redactions) ==
  IF k > Len(PHI_PATTERNS) THEN [text |-> result, redactions |-> redactions]
  ELSE ApplyFrom(k + 1, input,
                 ReplaceAll(PHI_PATTERNS[k].pattern, result, 1),
                 redactions \o RecordsOf(k, input))

\* a variant that returns after the first pattern of the library
applyRegexPatternsFirstPatternOnly(input) ==
  [text |-> ReplaceAll(PHI_PATTERNS[1].pattern, input, 1),
   redactions |-> RecordsOf(1, input)]

applyRegexPatterns(input) == ApplyFrom(1, input, input, <<>>)

EmptyResult == [text |-> NoText, redactions |-> <<>>]

deidentifySync(input) ==
  IF IsBlank(input) THEN EmptyResult ELSE applyRegexPatterns(input)

(***************************************************************************)
(* summarizeRedactions: the records are counted by type; the summary is    *)
(* the sequence of the entries of counts in insertion order, one part      *)
(* "count type(s)" each.  The empty sequence stands for 'no PHI found'.    *)
(***************************************************************************)
\* counts[r.type] = (counts[r.type] || 0) + 1
CountRecord(counts, type) ==
  IF \E k \in 1..Len(counts) : counts[k].type = type
  THEN [k \in 1..Len(counts) |->
          IF counts[k].type = type
          THEN [counts[k] EXCEPT !.count = @ + 1, !.plural = TRUE]
          ELSE counts[k]]
  ELSE Append(counts, [type |-> type, count |-> 1, plural |-> FALSE])

RECURSIVE CountFrom(_, _, _)
\* the loop over the records from record number j on
CountFrom(counts, redactions, j) ==
  IF j > Len(redactions) THEN counts
  ELSE CountFrom(CountRecord(counts, redactions[j].type), redactions, j + 1)

summarizeRedactions(redactions) == CountFrom(<<>>, redactions, 1)

(***************************************************************************)
(* Re-identification.                                                      *)
(***************************************************************************)
\* String.trim on tokens: leading and trailing line breaks are dropped
RECURSIVE Trim(_)
Trim(v) ==
  IF v = <<>> THEN v
  ELSE IF v[1] \in WhiteTokens THEN Trim(Tail(v))
  ELSE IF v[Len(v)] \in WhiteTokens THEN Trim(SubSeq(v, 1, Len(v) - 1))
  ELSE v

\* value.indexOf(':'), 1-based, 0 when absent
ColonIndex(v) ==
  IF \E k \in 1..Len(v) : v[k] = ":"
  THEN CHOOSE k \in 1..Len(v) : v[k] = ":" /\ \A j \in 1..(k - 1) : v[j] # ":"
  ELSE 0

\* the label prefix up to the first colon is dropped, unless the colon ends the value
StripLabel(v) ==
  LET c == ColonIndex(v)
  IN  IF c # 0 /\ c < Len(v) THEN Trim(SubSeq(v, c + 1, Len(v))) ELSE v

\* tokens that /\[[A-Z0-9\s+]+\]/ matches
BracketTokens == Placeholders \cup {"[MRN]", "[SSN]", "[PHONE]", "[AGE 90+]", "[ACCOUNT]"}

\* the key of a record: the first bracketed token of its replacement, or the
\* whole replacement when it has none
PlaceholderKey(replacement) ==
  IF \E k \in 1..Len(replacement) : replacement[k] \in BracketTokens
  THEN <<replacement[CHOOSE k \in 1..Len(replacement) :
            /\ replacement[k] \in BracketTokens
            /\ \A j \in 1..(k - 1) : replacement[j] \notin BracketTokens]>>
  ELSE replacement

\* value.replace(/^Dr\.?\s+/i, '').trim()
StripDr(v) ==
  IF Len(v) >= 3 /\ v[1] = "Dr" /\ v[2] = "." THEN Trim(SubSeq(v, 3, Len(v)))
  ELSE IF Len(v) >= 2 /\ v[1] = "Dr" /\ v[2] # "." THEN Trim(SubSeq(v, 2, Len(v)))
  ELSE v

\* value.replace(/\s*\([^)]*\)\s*/g, ''): of a phone number written with
\* parentheses the part after the parenthesis is left, a token written
\* directly after the token before it
RemoveParentheticals(v) ==
  [k \in 1..Len(v) |-> IF v[k] \in ParenPhoneTokens THEN "123-4567" ELSE v[k]]

\* the value a record contributes to the map
ValueOf(r) ==
  LET v == Trim(RemoveParentheticals(StripLabel(r.original)))
  IN  IF PlaceholderKey(r.replacement) = <<"[PROVIDER]">> THEN StripDr(v) ELSE v

InSeq(x, sq) == \E k \in 1..Len(sq) : sq[k] = x

\* map.has(key): position of the entry of key in the map, 0 when absent
EntryIndex(map, key) ==
  IF \E k \in 1..Len(map) : map[k].placeholder = key
  THEN CHOOSE k \in 1..Len(map) : map[k].placeholder = key
  ELSE 0

\* the iteration without the test "!values.includes(value)"
AddRecordKeepingDuplicates(map, r) ==
  LET key  == PlaceholderKey(r.replacement)
      v    == ValueOf(r)
      map1 == IF EntryIndex(map, key) = 0
              THEN Append(map, [placeholder |-> key, values |-> <<>>]) ELSE map
      k    == EntryIndex(map1, key)
  IN  IF v # <<>> /\ v[1] \notin BracketTokens
      THEN [map1 EXCEPT ![k].values = Append(@, v)]
      ELSE map1

\* one iteration of the loop of buildReidentificationMap
AddRecord(map, r) ==
  LET key  == PlaceholderKey(r.replacement)
      v    == ValueOf(r)
      map1 == IF EntryIndex(map, key) = 0
              THEN Append(map, [placeholder |-> key, values |-> <<>>]) ELSE map
      k    == EntryIndex(map1, key)
  IN  IF v # <<>> /\ v[1] \notin BracketTokens /\ ~InSeq(v, map1[k].values)
      THEN [map1 EXCEPT ![k].values = Append(@, v)]
      ELSE map1

RECURSIVE BuildFrom(_, _, _)
BuildFrom(map, redactions, j) ==
  IF j > Len(redactions) THEN map
  ELSE BuildFrom(AddRecord(map, redactions[j]), redactions, j + 1)

\* the map as the sequence of its entries [placeholder, values] in insertion order
buildReidentificationMap(redactions) == BuildFrom(<<>>, redactions, 1)

RECURSIVE ReplaceCyclic(_, _, _, _, _)
\* result.replace(regex, () => values[valueIndex++ % values.length]) from token i on
ReplaceCyclic(t, i, key, values, valueIndex) ==
  IF i > Len(t) THEN <<>>
  ELSE IF i + Len(key) - 1 <= Len(t) /\ SubSeq(t, i, i + Len(key) - 1) = key
  THEN values[(valueIndex % Len(values)) + 1]
       \o ReplaceCyclic(t, i + Len(key), key, values, valueIndex + 1)
  ELSE <<t[i]>> \o ReplaceCyclic(t, i + 1, key, values, valueIndex)

RECURSIVE ReidentifyFromEmptyString(_, _, _)
\* the loop without "if (values.length === 0) continue": a category without
\* values puts the empty string in place of its placeholder
ReidentifyFromEmptyString(result, map, k) ==
  IF k > Len(map) THEN result
  ELSE ReidentifyFromEmptyString(
         ReplaceCyclic(result, 1, map[k].placeholder,
                       IF Len(map[k].values) = 0 THEN <<NoText>> ELSE map[k].values, 0),
         map, k + 1)

RECURSIVE ReidentifyFrom(_, _, _)
\* the loop over map.entries() from entry number k on
ReidentifyFrom(result, map, k) ==
  IF k > Len(map) THEN result
  ELSE IF Len(map[k].values) = 0 THEN ReidentifyFrom(result, map, k + 1)
  ELSE ReidentifyFrom(ReplaceCyclic(result, 1, map[k].placeholder, map[k].values, 0),
                      map, k + 1)

reidentify(t, redactions) ==
  IF t = NoText \/ Len(redactions) = 0 THEN t
  ELSE ReidentifyFrom(t, buildReidentificationMap(redactions), 1)

\* a JavaScript value: a string (its tokens in str), a number, boolean or null
\* (its literal in str), undefined, an array (its items) or an object (its
\* entries [key, value] in the order of Object.entries)
JSString(t) == [kind |-> "string", str |-> t, items |-> <<>>]
JSLeaf(kind, literal) == [kind |-> kind, str |-> <<literal>>, items |-> <<>>]
JSArray(items) == [kind |-> "array", str |-> NoText, items |-> items]
JSObject(entries) == [kind |-> "object", str |-> NoText, items |-> entries]
Undefined == [kind |-> "undefined", str |-> NoText, items |-> <<>>]

\* value.map(item => typeof item === 'string' ? reidentify(item, redactions) : item)
SectionItem(item, redactions) ==
  IF item.kind = "string" THEN JSString(reidentify(item.str, redactions)) ELSE item

\* the loop body with String(value) re-identified for every value that is
\* not an array
SectionValueCoercing(value, redactions) ==
  IF value.kind = "array"
  THEN JSArray([k \in 1..Len(value.items) |-> SectionItem(value.items[k], redactions)])
  ELSE JSString(reidentify(value.str, redactions))

\* the value stored under one key of the result of reidentifySections
SectionValue(value, redactions) ==
  IF value.kind = "string" THEN JSString(reidentify(value.str, redactions))
  ELSE IF value.kind = "array"
  THEN JSArray([k \in 1..Len(value.items) |-> SectionItem(value.items[k], redactions)])
  ELSE value

RECURSIVE ReidentifyFromCursor(_, _, _, _)
\* the loop over map.entries() with every cursor starting at valueIndex
ReidentifyFromCursor(result, map, k, valueIndex) ==
  IF k > Len(map) THEN result
  ELSE IF Len(map[k].values) = 0 THEN ReidentifyFromCursor(result, map, k + 1, valueIndex)
  ELSE ReidentifyFromCursor(
         ReplaceCyclic(result, 1, map[k].placeholder, map[k].values, valueIndex),
         map, k + 1, valueIndex)

\* the number of placeholders in the strings of a section value
PlaceholdersIn(value) ==
  IF value.kind = "string"
  THEN Cardinality({i \in 1..Len(value.str) : value.str[i] \in BracketTokens})
  ELSE IF value.kind = "array"
  THEN Cardinality({p \in UNION {{<<j, i>> : i \in 1..Len(value.items[j].str)}
                                    : j \in 1..Len(value.items)} :
                      /\ value.items[p[1]].kind = "string"
                      /\ value.items[p[1]].str[p[2]] \in BracketTokens})
  ELSE 0

RECURSIVE PlaceholdersBefore(_, _)
\* the number of placeholders in the values of the entries before entry k
PlaceholdersBefore(sections, k) ==
  IF k = 1 THEN 0
  ELSE PlaceholdersBefore(sections, k - 1) + PlaceholdersIn(sections.items[k - 1].value)

\* a variant of reidentifySections that builds the map once and keeps the
\* cursor of the categories from one value to the next
reidentifySectionsSharedCursor(sections, redactions) ==
  LET map == buildReidentificationMap(redactions)
      Restore(t, k) == IF t = NoText \/ Len(redactions) = 0 THEN t
                       ELSE ReidentifyFromCursor(t, map, 1, PlaceholdersBefore(sections, k))
      Item(item, k) == IF item.kind = "string" THEN JSString(Restore(item.str, k)) ELSE item
      Value(value, k) ==
        IF value.kind = "string" THEN JSString(Restore(value.str, k))
        ELSE IF value.kind = "array"
        THEN JSArray([j \in 1..Len(value.items) |-> Item(value.items[j], k)])
        ELSE value
  IN  JSObject([k \in 1..Len(sections.items) |->
                  [key   |-> sections.items[k].key,
                   value |-> Value(sections.items[k].value, k)]])

reidentifySections(sections, redactions) ==
  JSObject([k \in 1..Len(sections.items) |->
              [key   |-> sections.items[k].key,
               value |-> SectionValue(sections.items[k].value, redactions)]])

\* the value stored under one key of the result of reidentifyMetadata
MetadataValue(value, redactions) ==
  IF value.kind = "string" THEN JSString(reidentify(value.str, redactions)) ELSE value

reidentifyMetadata(metadata, redactions) ==
  IF metadata.kind \in {"undefined", "null"} THEN Undefined
  ELSE JSObject([k \in 1..Len(metadata.items) |->
                   [key   |-> metadata.items[k].key,
                    value |-> MetadataValue(metadata.items[k].value, redactions)]])

(***************************************************************************)
(* The regex pipeline on one text: deidentifySync, then reidentify of its  *)
(* own output with its own ledger.                                         *)
(***************************************************************************)
\* the words of a provider line and of a demographics line
ProviderVocabulary == {"PCP", "Dr", ".", ":", "Ann", "Lee", "Provider"}
DemographicsVocabulary == {"Patient", "Data", "Ann", "DOB", ":",
                           "01/02/2020", "03/04/2021"}

TextsOver(V, n) == UNION {[1..k -> V] : k \in 0..n}

\* the words of a provider line followed by a date or a phone line
ContactVocabulary == {"Provider", "Ann", "Date", "Phone", ":",
                      "01/02/20", "5551234567"}

\* the input of the test case 'Basic patient info'
BasicPatientInfo ==
  <<"Patient", "Name", ":", "John", "Smith", "\n",
    "DOB", ":", "03/15/1985", "\n",
    "MRN", ":", "00012345", "\n",
    "Phone", ":", "(555) 123-4567", "\n", "\n",
    "Chief", "Complaint", ":", "Chest", "pain", "x", "2", "days">>

\* the documents whose ledgers the calls use: one without PHI; one with a
\* labeled DOB, a second date and an address line that is already redacted;
\* one whose patient line the pattern matches and leaves as it is; one whose
\* address line holds a placeholder, followed by two ages
LedgerSources ==
  { <<"seen">>,
    <<"DOB", ":", "01/02/2020", "03/04/2021", "\n", "Address", ":", "[ADDRESS]">>,
    <<"Patient", ":", "Data", "Ann">>,
    <<"Address", ":", "Ann", "[AGE 90+]", "\n", "9", "5", "yo", "9", "7", "yo">> }

\* an account line whose number has the form of a phone number
AccountLine == <<"Account", ":", "555-123-4567">>

RegexInputs == TextsOver(ProviderVocabulary, MaxLen)
               \cup TextsOver(DemographicsVocabulary, MaxLen)
               \cup TextsOver(ContactVocabulary, MaxLen)
               \cup {BasicPatientInfo, AccountLine} \cup LedgerSources

(***************************************************************************)
(* applyNER after the model has answered: entities is the model's output,  *)
(* a sequence of tagged tokens [entity, start, end] in text order.  The    *)
(* token's word is left out: the text of a grouped entity is never read.   *)
(***************************************************************************)
RelevantTags == {"B-PER", "I-PER", "B-LOC", "I-LOC", "B-ORG", "I-ORG"}

\* entity.entity.substring(2)
EntityType(tag) == CASE tag \in {"B-PER", "I-PER"} -> "PER"
                     [] tag \in {"B-LOC", "I-LOC"} -> "LOC"
                     [] tag \in {"B-ORG", "I-ORG"} -> "ORG"
                     [] OTHER -> "MISC"

\* entity.entity.startsWith('B-')
IsBeginning(tag) == tag \in {"B-PER", "B-LOC", "B-ORG", "B-MISC"}

\* currentEntity = null
NoEntity == [type |-> "null", start |-> 0, end |-> 0]

RECURSIVE GroupFromSameClassOnly(_, _, _, _)
\* a variant of the grouping loop that does not look at the begin marker
GroupFromSameClassOnly(relevant, k, currentEntity, groupedEntities) ==
  IF k > Len(relevant)
  THEN IF currentEntity = NoEntity THEN groupedEntities
       ELSE Append(groupedEntities, currentEntity)
  ELSE LET entity == relevant[k]
       IN  IF \/ currentEntity = NoEntity
              \/ currentEntity.type # EntityType(entity.entity)
           THEN GroupFromSameClassOnly(relevant, k + 1,
                          [type  |-> EntityType(entity.entity),
                           start |-> entity.start,
                           end   |-> entity.end],
                          IF currentEntity = NoEntity THEN groupedEntities
                          ELSE Append(groupedEntities, currentEntity))
           ELSE GroupFromSameClassOnly(relevant, k + 1,
                          [currentEntity EXCEPT !.end = entity.end],
                          groupedEntities)

RECURSIVE GroupFrom(_, _, _, _)
\* the grouping loop from token number k on
GroupFrom(relevant, k, currentEntity, groupedEntities) ==
  IF k > Len(relevant)
  THEN IF currentEntity = NoEntity THEN groupedEntities
       ELSE Append(groupedEntities, currentEntity)
  ELSE LET entity == relevant[k]
       IN  IF \/ IsBeginning(entity.entity)
              \/ currentEntity = NoEntity
              \/ currentEntity.type # EntityType(entity.entity)
           THEN GroupFrom(relevant, k + 1,
                          [type  |-> EntityType(entity.entity),
                           start |-> entity.start,
                           end   |-> entity.end],
                          IF currentEntity = NoEntity THEN groupedEntities
                          ELSE Append(groupedEntities, currentEntity))
           ELSE GroupFrom(relevant, k + 1,
                          [currentEntity EXCEPT !.end = entity.end],
                          groupedEntities)

\* the overlap test of the filter against the existing redactions
OverlapsExisting(entity, existingRedactions) ==
  \E j \in 1..Len(existingRedactions) :
    LET r == existingRedactions[j]
    IN  \/ (entity.start >= r.start /\ entity.start < r.end)
        \/ (entity.end > r.start /\ entity.end <= r.end)

RECURSIVE InsertByStartDesc(_, _)
InsertByStartDesc(sorted, e) ==
  IF sorted = <<>> THEN <<e>>
  ELSE IF Head(sorted).start >= e.start
  THEN <<Head(sorted)>> \o InsertByStartDesc(Tail(sorted), e)
  ELSE <<e>> \o sorted

\* a variant of the sort that leaves the entities in text order
SortKeepingTextOrder(es, k, sorted) == es

RECURSIVE SortByStartDesc(_, _, _)
\* [...newEntities].sort((a, b) => b.start - a.start), a stable sort
SortByStartDesc(es, k, sorted) ==
  IF k > Len(es) THEN sorted
  ELSE SortByStartDesc(es, k + 1, InsertByStartDesc(sorted, es[k]))

NerPlaceholder(type) == IF type = "PER" THEN "[NAME]"
                        ELSE IF type = "LOC" THEN "[LOCATION]" ELSE "[ORG]"
NerType(type) == IF type = "PER" THEN "NAME"
                 ELSE IF type = "LOC" THEN "LOCATION" ELSE "ORG"

\* originalText.length < 2
IsShort(t) == t = NoText \/ (Len(t) = 1 /\ t[1] \in OneCharTokens)

\* originalText.startsWith('[') && originalText.endsWith(']')
LooksRedacted(t) == t # NoText /\ t[1] \in BracketTokens /\ t[Len(t)] \in BracketTokens

Reverse(sq) == [k \in 1..Len(sq) |-> sq[Len(sq) + 1 - k]]

RECURSIVE RedactFrom(_, _, _, _, _)
\* the replacement loop over sortedEntities from entity number k on
RedactFrom(input, sortedEntities, k, result, newRedactions) ==
  IF k > Len(sortedEntities) THEN [text |-> result, redactions |-> newRedactions]
  ELSE LET entity       == sortedEntities[k]
           originalText == Slice(input, entity.start, entity.end)
       IN  IF IsShort(originalText) \/ LooksRedacted(originalText)
           THEN RedactFrom(input, sortedEntities, k + 1, result, newRedactions)
           ELSE RedactFrom(input, sortedEntities, k + 1,
                  Slice(result, 0, entity.start) \o <<NerPlaceholder(entity.type)>>
                    \o Slice(result, entity.end, Len(result)),
                  Append(newRedactions,
                         [type        |-> NerType(entity.type),
                          original    |-> originalText,
                          replacement |-> <<NerPlaceholder(entity.type)>>,
                          start       |-> entity.start,
                          end         |-> entity.end]))

\* a variant of the catch block that returns the text without the ledger
applyNERCatchDroppingLedger(input, existingRedactions) ==
  [text |-> input, redactions |-> <<>>]

\* the catch block of applyNER: the regex-only result, unchanged
applyNERCatch(input, existingRedactions) ==
  [text |-> input, redactions |-> existingRedactions]

\* the try block of applyNER once ner(text) has returned entities
applyNEREntities(input, existingRedactions, entities) ==
  LET relevantEntities == SelectSeq(entities, LAMBDA e : e.entity \in RelevantTags)
      groupedEntities  == GroupFrom(relevantEntities, 1, NoEntity, <<>>)
      newEntities      == SelectSeq(groupedEntities,
                            LAMBDA e : ~OverlapsExisting(e, existingRedactions))
      sortedEntities   == SortByStartDesc(newEntities, 1, <<>>)
      done             == RedactFrom(input, sortedEntities, 1, input, <<>>)
  IN  IF Len(relevantEntities) = 0
      THEN [text |-> input, redactions |-> existingRedactions]
      ELSE [text |-> done.text,
            redactions |-> existingRedactions \o Reverse(done.redactions)]

(***************************************************************************)
(* The NER pipeline on one text: the regex pass, then the NER pass with    *)
(* the model loaded and answering.  The model's output is any sequence of  *)
(* at most MaxEntities tagged tokens, in text order, not overlapping.      *)
(***************************************************************************)
NerVocabulary == {"DOB", "01/02/2020", "Ann", "Lee"}

NerInputs == TextsOver(NerVocabulary, MaxNerLen)

ModelTags == {"B-PER", "I-PER", "B-LOC", "B-MISC"}

RECURSIVE EntitiesFrom(_, _, _)
\* the sequences of at most k tagged tokens of a text of n tokens, each
\* token a non-empty span [start, end) that begins at or after lo
EntitiesFrom(n, lo, k) ==
  IF k = 0 THEN {<<>>}
  ELSE {<<>>} \cup
       UNION {UNION {{<<[entity |-> g, start |-> a, end |-> b]>> \o rest :
                        g \in ModelTags, rest \in EntitiesFrom(n, b, k - 1)}
                     : b \in (a + 1)..n}
              : a \in lo..(n - 1)}

\* what ner(text) may return for a text of n tokens
ModelOutputs(n) == EntitiesFrom(n, 0, MaxEntities)

LoaderIdle ==
  /\ nerPipeline = "null"
  /\ nerLoadingPromise = 0
  /\ loads = <<>>
  /\ calls = <<>>

\* no environment read, no run, no fax record, no backend call
FaxIdle ==
  /\ env = [AI_PROVIDER |-> "unset", ANTHROPIC_API_KEY |-> FALSE,
            OPENAI_API_KEY |-> FALSE]
  /\ runs = <<>>
  /\ faxes = <<>>
  /\ backendCalls = <<>>

\* no call of a re-identification function
NoReidCall == [pc |-> "idle", kind |-> "none", redactions |-> <<>>,
               input |-> Undefined, output |-> Undefined]

ReidIdle == reidCall = NoReidCall

NerInit ==
  /\ text \in NerInputs
  /\ pc = "input"
  /\ regexResult = EmptyResult
  /\ nerResult = EmptyResult
  /\ nerEntities = <<>>
  /\ restored = NoText
  /\ LoaderIdle
  /\ FaxIdle
  /\ ReidIdle

\* deidentify up to its await: the empty result at once for blank input,
\* Step 1 (the regex pass) otherwise
RegexPass ==
  /\ pc = "input"
  /\ IF IsBlank(text)
     THEN /\ pc' = "ner"
          /\ UNCHANGED <<regexResult, nerResult, nerEntities>>
     ELSE /\ regexResult' = applyRegexPatterns(text)
          /\ pc' = "regex"
          /\ UNCHANGED <<nerResult, nerEntities>>
  /\ UNCHANGED <<text, restored>>
  /\ UNCHANGED loaderVars
  /\ UNCHANGED <<faxVars, reidVars>>

\* Step 2 of deidentify: the NER pass, the model answering with entities
NerPass ==
  /\ pc = "regex"
  /\ \E entities \in ModelOutputs(Len(regexResult.text)) :
       /\ nerEntities' = entities
       /\ nerResult' = applyNEREntities(regexResult.text, regexResult.redactions, entities)
  /\ pc' = "ner"
  /\ UNCHANGED <<text, regexResult, restored>>
  /\ UNCHANGED loaderVars
  /\ UNCHANGED <<faxVars, reidVars>>

(***************************************************************************)
(* The regex pipeline on a written age: an integer age in decimal digits   *)
(* followed by an age indicator, alone or after a word.                    *)
(***************************************************************************)
\* the largest age the pattern (9\d|1\d{2}) can match
MaxWrittenAge == 199

\* String(d) for one digit
DigitOf(d) == <<"0", "1", "2", "3", "4", "5", "6", "7", "8", "9">>[d + 1]

RECURSIVE Digits(_)
\* the decimal numeral of a, one token per digit
Digits(a) ==
  IF a < 10 THEN <<DigitOf(a)>> ELSE Digits(a \div 10) \o <<DigitOf(a % 10)>>

\* the age indicators "yo", "year old" and "-year-old"
AgeForms == {<<"yo">>, <<"year", "old">>, <<"-year-old">>}

\* what may precede the age
AgePrefixes == {NoText, <<"seen">>}

AgeInputs ==
  {prefix \o Digits(a) \o form :
     prefix \in AgePrefixes, a \in 0..MaxWrittenAge, form \in AgeForms}

AgeInit ==
  /\ text \in AgeInputs
  /\ pc = "input"
  /\ regexResult = EmptyResult
  /\ nerResult = EmptyResult
  /\ nerEntities = <<>>
  /\ restored = NoText
  /\ LoaderIdle
  /\ FaxIdle
  /\ ReidIdle

RegexInit ==
  /\ text \in RegexInputs
  /\ pc = "input"
  /\ regexResult = EmptyResult
  /\ nerResult = EmptyResult
  /\ nerEntities = <<>>
  /\ restored = NoText
  /\ LoaderIdle
  /\ FaxIdle
  /\ ReidIdle

DeidentifySync ==
  /\ pc = "input"
  /\ regexResult' = deidentifySync(text)
  /\ pc' = "regex"
  /\ UNCHANGED <<text, nerResult, nerEntities, restored>>
  /\ UNCHANGED loaderVars
  /\ UNCHANGED <<faxVars, reidVars>>

Reidentify ==
  /\ pc = "regex"
  /\ restored' = reidentify(regexResult.text, regexResult.redactions)
  /\ pc' = "restored"
  /\ UNCHANGED <<text, regexResult, nerResult, nerEntities>>
  /\ UNCHANGED loaderVars
  /\ UNCHANGED <<faxVars, reidVars>>

(***************************************************************************)
(* The model loader (getNERPipeline) under concurrent callers.  A load is  *)
(* [model, state, by]: which model, pending / resolved / rejected, and the *)
(* caller that started it.  nerLoadingPromise holds the number of a load.  *)
(* Each caller runs deidentify, deidentifySync or preloadNERModel; the     *)
(* code between two awaits is one step.  A call records, next to the       *)
(* program's own values, what it did: branch (how getNERPipeline was       *)
(* entered, "none" when it was not), inFlightAtCall, ranRegex, failure.    *)
(***************************************************************************)
LoaderTexts == {NoText, <<"\n">>, <<"Ann", "DOB", "01/02/2020">>}

IdleCall == [kind |-> "none", pc |-> "idle", input |-> NoText,
             regex |-> EmptyResult, awaits |-> 0, handle |-> "null",
             branch |-> "none", inFlightAtCall |-> FALSE, ranRegex |-> FALSE,
             failure |-> "none", result |-> EmptyResult]

Callers == 1..NumCallers

LoaderInit ==
  /\ text = NoText
  /\ pc = "input"
  /\ regexResult = EmptyResult
  /\ nerResult = EmptyResult
  /\ nerEntities = <<>>
  /\ restored = NoText
  /\ nerPipeline = "null"
  /\ nerLoadingPromise = 0
  /\ loads = <<>>
  /\ calls = [c \in Callers |-> IdleCall]
  /\ FaxIdle
  /\ ReidIdle

\* an always-failing variant of the check for a cached in-flight load
GetNERPipelineBranchNoShare(pipe, promise) ==
  IF pipe # "null" THEN "cached" ELSE "start"

\* the two tests at the head of getNERPipeline
GetNERPipelineBranch(pipe, promise) ==
  IF pipe # "null" THEN "cached"
  ELSE IF promise # 0 THEN "shared"
  ELSE "start"

\* a variant in which every caller whose awaited load was rejected runs the catch
StartsFallbackAnyWaiter(at) == at \in {"loadPrimary", "awaitShared"}

\* the catch of getNERPipeline runs for the caller awaiting inside its try
StartsFallback(at) == at = "loadPrimary"

\* where a caller continues once it holds the model
AfterLoader(kind) == IF kind = "preload" THEN "done" ELSE "infer"

LoadInFlight == \E id \in 1..Len(loads) : loads[id].state = "pending"

\* the continuations of a settled promise run before the next event is
\* handled: no caller is still waiting on a load that has settled
MicrotasksDrained ==
  \A c \in Callers :
    calls[c].pc \in {"loadPrimary", "loadFallback", "awaitShared"} =>
      loads[calls[c].awaits].state = "pending"

\* what the model may answer in the loader runs: nothing, or the first token as a person
InferenceOutputs(n) ==
  IF n >= 1 THEN {<<>>, <<[entity |-> "B-PER", start |-> 0, end |-> 1]>>}
  ELSE {<<>>}

\* getNERPipeline up to its first await, for caller c whose call record is call
EnterLoader(c, call) ==
  LET branch == GetNERPipelineBranch(nerPipeline, nerLoadingPromise)
      entered == [call EXCEPT !.branch = branch, !.inFlightAtCall = LoadInFlight]
  IN  CASE branch = "cached" ->
             /\ calls' = [calls EXCEPT ![c] =
                            [entered EXCEPT !.handle = nerPipeline,
                                            !.pc = AfterLoader(call.kind)]]
             /\ UNCHANGED <<nerPipeline, nerLoadingPromise, loads>>
        [] branch = "shared" ->
             /\ calls' = [calls EXCEPT ![c] =
                            [entered EXCEPT !.awaits = nerLoadingPromise,
                                            !.pc = "awaitShared"]]
             /\ UNCHANGED <<nerPipeline, nerLoadingPromise, loads>>
        [] OTHER ->
             /\ loads' = Append(loads, [model |-> "primary", state |-> "pending", by |-> c])
             /\ nerLoadingPromise' = Len(loads) + 1
             /\ calls' = [calls EXCEPT ![c] =
                            [entered EXCEPT !.awaits = Len(loads) + 1,
                                            !.pc = "loadPrimary"]]
             /\ UNCHANGED nerPipeline

\* deidentify(t) up to its first await
CallDeidentify(c) ==
  /\ calls[c].pc = "idle"
  /\ MicrotasksDrained
  /\ \E t \in LoaderTexts :
       IF IsBlank(t)
       THEN /\ calls' = [calls EXCEPT ![c] =
                           [IdleCall EXCEPT !.kind = "deidentify", !.input = t,
                                            !.pc = "done"]]
            /\ UNCHANGED <<nerPipeline, nerLoadingPromise, loads>>
       ELSE EnterLoader(c, [IdleCall EXCEPT !.kind = "deidentify", !.input = t,
                                            !.regex = applyRegexPatterns(t),
                                            !.ranRegex = TRUE])
  /\ UNCHANGED pipeVars
  /\ UNCHANGED <<faxVars, reidVars>>

\* deidentifySync(t)
CallDeidentifySync(c) ==
  /\ calls[c].pc = "idle"
  /\ MicrotasksDrained
  /\ \E t \in LoaderTexts :
       calls' = [calls EXCEPT ![c] =
                   [IdleCall EXCEPT !.kind = "deidentifySync", !.input = t,
                                    !.ranRegex = ~IsBlank(t),
                                    !.result = deidentifySync(t),
                                    !.pc = "done"]]
  /\ UNCHANGED <<nerPipeline, nerLoadingPromise, loads>>
  /\ UNCHANGED pipeVars
  /\ UNCHANGED <<faxVars, reidVars>>

\* preloadNERModel() up to its await
CallPreload(c) ==
  /\ calls[c].pc = "idle"
  /\ MicrotasksDrained
  /\ EnterLoader(c, [IdleCall EXCEPT !.kind = "preload"])
  /\ UNCHANGED pipeVars
  /\ UNCHANGED <<faxVars, reidVars>>

\* the library settles a pending load: the model is loaded, or the load fails
SettleLoad(id) ==
  /\ id \in 1..Len(loads)
  /\ MicrotasksDrained
  /\ loads[id].state = "pending"
  /\ \E outcome \in {"resolved", "rejected"} :
       loads' = [loads EXCEPT ![id].state = outcome]
  /\ UNCHANGED <<nerPipeline, nerLoadingPromise, calls>>
  /\ UNCHANGED pipeVars
  /\ UNCHANGED <<faxVars, reidVars>>

\* a caller awaiting a load continues after the load has settled
ResumeLoader(c) ==
  LET call == calls[c]
      load == loads[call.awaits]
      failed == [call EXCEPT !.failure = "load", !.pc = "done",
                   !.result = IF call.kind = "deidentify"
                              THEN applyNERCatch(call.regex.text, call.regex.redactions)
                              ELSE EmptyResult]
  IN  /\ call.pc \in {"loadPrimary", "loadFallback", "awaitShared"}
      /\ load.state # "pending"
      /\ IF load.state = "resolved"
         THEN /\ calls' = [calls EXCEPT ![c] =
                             [call EXCEPT !.handle = load.model,
                                          !.pc = AfterLoader(call.kind)]]
              /\ nerPipeline' = IF call.pc = "awaitShared" THEN nerPipeline
                                ELSE load.model
              /\ UNCHANGED <<nerLoadingPromise, loads>>
         ELSE IF StartsFallback(call.pc)
         THEN /\ loads' = Append(loads, [model |-> "fallback", state |-> "pending",
                                         by |-> c])
              /\ nerLoadingPromise' = Len(loads) + 1
              /\ calls' = [calls EXCEPT ![c] =
                             [call EXCEPT !.awaits = Len(loads) + 1,
                                          !.pc = "loadFallback"]]
              /\ UNCHANGED nerPipeline
         ELSE /\ calls' = [calls EXCEPT ![c] = failed]
              /\ UNCHANGED <<nerPipeline, nerLoadingPromise, loads>>
      /\ UNCHANGED pipeVars
      /\ UNCHANGED <<faxVars, reidVars>>

\* ner(text) settles: the model answers with entities, or inference throws
Infer(c) ==
  LET call == calls[c]
  IN  /\ call.pc = "infer"
      /\ MicrotasksDrained
      /\ \/ \E entities \in InferenceOutputs(Len(call.regex.text)) :
              calls' = [calls EXCEPT ![c] =
                          [call EXCEPT !.pc = "done",
                             !.result = applyNEREntities(call.regex.text,
                                          call.regex.redactions, entities)]]
         \/ calls' = [calls EXCEPT ![c] =
                        [call EXCEPT !.pc = "done", !.failure = "inference",
                           !.result = applyNERCatch(call.regex.text,
                                                    call.regex.redactions)]]
      /\ UNCHANGED <<nerPipeline, nerLoadingPromise, loads>>
      /\ UNCHANGED pipeVars
      /\ UNCHANGED <<faxVars, reidVars>>

(***************************************************************************)
(* Document-processing runs: processFax of the webhook, manual, PDF-upload *)
(* and reprocess handlers, the generate endpoint they call, and the fax    *)
(* records they update.  A provider is the string of the request body,     *)
(* "undefined" when the body has none.  deidentify is one step here: its   *)
(* result is the regex-only result or the regex result augmented by the    *)
(* model's answer.  The AI's answer is a text, which stands for the        *)
(* sections and the metadata of the response.                              *)
(***************************************************************************)
Runs == 1..NumRuns
FaxIds == 1..NumFaxes

\* what a request body may carry as provider
Providers == {"undefined", "claude", "ollama", "Ollama"}

\* the non-blank texts of a fax
FaxTexts == {<<"Ann", "DOB", "01/02/2020">>, <<"DOB", ":", "03/04/2021">>, <<"seen">>}

\* the NULL of a nullable text column
Null == <<"null">>

\* the configurations of the generate endpoint: Claude by default, OpenAI
\* by default, Ollama by AI_PROVIDER with a Claude key present, and no key
EnvConfigs ==
  {[AI_PROVIDER |-> "unset", ANTHROPIC_API_KEY |-> TRUE, OPENAI_API_KEY |-> TRUE],
   [AI_PROVIDER |-> "unset", ANTHROPIC_API_KEY |-> FALSE, OPENAI_API_KEY |-> TRUE],
   [AI_PROVIDER |-> "ollama", ANTHROPIC_API_KEY |-> TRUE, OPENAI_API_KEY |-> FALSE],
   [AI_PROVIDER |-> "unset", ANTHROPIC_API_KEY |-> FALSE, OPENAI_API_KEY |-> FALSE]}

IdleRun == [handler |-> "none", pc |-> "idle", faxId |-> 0,
            provider |-> "undefined", raw |-> NoText,
            deidentified |-> FALSE, deid |-> EmptyResult,
            textToProcess |-> NoText, redactions |-> <<>>,
            requestSent |-> FALSE, requestText |-> NoText,
            backend |-> "none", ok |-> FALSE, answer |-> NoText,
            reidentified |-> FALSE, ledgerUsed |-> <<>>, written |-> Null]

NoFax == [status |-> "none", rawText |-> Null, errorMessage |-> "null",
          documentType |-> "null", sections |-> Null]

FaxInit ==
  /\ text = NoText
  /\ pc = "input"
  /\ regexResult = EmptyResult
  /\ nerResult = EmptyResult
  /\ nerEntities = <<>>
  /\ restored = NoText
  /\ LoaderIdle
  /\ ReidIdle
  /\ env \in EnvConfigs
  /\ runs = [r \in Runs |-> IdleRun]
  /\ faxes = [f \in FaxIds |-> NoFax]
  /\ backendCalls = <<>>

\* a variant that takes every provider other than the two external ones as local
useLocalAIUnlessExternal(provider) == provider \notin {"claude", "openai"}

\* const useLocalAI = provider === 'ollama'
useLocalAI(provider) == provider = "ollama"

\* getProvider of the generate endpoint
getProvider(requestProvider, e) ==
  IF requestProvider # "undefined" THEN requestProvider
  ELSE IF e.AI_PROVIDER \in {"claude", "openai", "ollama"} THEN e.AI_PROVIDER
  ELSE IF e.ANTHROPIC_API_KEY THEN "claude"
  ELSE IF e.OPENAI_API_KEY THEN "openai"
  ELSE "ollama"

\* the generate endpoint up to its backend call: the backend it calls, or
\* the error status it answers with at once
GenerateBackend(requestText, requestProvider, e) ==
  IF IsBlank(requestText) THEN "error400"
  ELSE LET provider == getProvider(requestProvider, e)
       IN  IF provider = "claude" /\ ~e.ANTHROPIC_API_KEY THEN "error500"
           ELSE IF provider = "openai" /\ ~e.OPENAI_API_KEY THEN "error500"
           ELSE IF provider \in {"claude", "openai", "ollama"} THEN provider
           ELSE "error500"

\* what applyNER may return for the regex pass's result regexPass: the catch
\* block's value when the model fails to load or to answer, else the
\* redaction of the entities the model answers with
applyNER(regexPass) ==
  {applyNERCatch(regexPass.text, regexPass.redactions)}
    \cup {applyNEREntities(regexPass.text, regexPass.redactions, entities) :
            entities \in InferenceOutputs(Len(regexPass.text))}

\* what await deidentify(input) may return
deidentify(input) ==
  IF IsBlank(input) THEN {EmptyResult} ELSE applyNER(applyRegexPatterns(input))

\* await deidentify(text) for the text of each fax
DeidentifyOutcomes == [t \in FaxTexts |-> deidentify(t)]

\* what the AI may answer to a text: the text itself, or nothing of it
AIAnswers(t) == {t, <<"seen">>}

\* the ledgers a run may hold and the answers it may receive
FaxLedgers ==
  {<<>>} \cup {d.redactions : d \in UNION {DeidentifyOutcomes[t] : t \in FaxTexts}}
FaxAnswers ==
  UNION {AIAnswers(t) : t \in FaxTexts}
    \cup UNION {AIAnswers(d.text) : d \in UNION {DeidentifyOutcomes[t] : t \in FaxTexts}}

\* reidentifySections(generateData.sections, redactions) for each of them
ReidentifyOutcomes == [a \in FaxAnswers, l \in FaxLedgers |-> reidentify(a, l)]

\* runs are numbered in the order in which they are scheduled
NextRun(r) == runs[r].pc = "idle" /\ \A q \in 1..(r - 1) : runs[q].pc # "idle"

\* the webhook, manual and PDF-upload handlers: a fax record is created with
\* status pending and processFax is scheduled
ReceiveFax(r) ==
  /\ NextRun(r)
  /\ \E f \in FaxIds, h \in {"webhook", "manual", "upload"},
        t \in FaxTexts, p \in Providers :
       /\ faxes[f].status = "none"
       /\ \A g \in 1..(f - 1) : faxes[g].status # "none"
       /\ h = "webhook" => p = "undefined"
       /\ faxes' = [faxes EXCEPT ![f] =
                      [NoFax EXCEPT !.status = "pending",
                                    !.rawText = IF h = "webhook" THEN Null ELSE t]]
       /\ runs' = [runs EXCEPT ![r] =
                     [IdleRun EXCEPT !.handler = h, !.pc = "queued", !.faxId = f,
                                     !.provider = p, !.raw = t]]
  /\ UNCHANGED <<env, backendCalls>>
  /\ UNCHANGED <<pipeVars, loaderVars, reidVars>>

\* the reprocess handler: processFax is scheduled for an existing record
\* that has raw text
Reprocess(r) ==
  /\ NextRun(r)
  /\ \E f \in FaxIds, p \in Providers :
       /\ faxes[f].status # "none"
       /\ faxes[f].rawText # Null
       /\ runs' = [runs EXCEPT ![r] =
                     [IdleRun EXCEPT !.handler = "reprocess", !.pc = "queued",
                                     !.faxId = f, !.provider = p,
                                     !.raw = faxes[f].rawText]]
  /\ UNCHANGED <<env, faxes, backendCalls>>
  /\ UNCHANGED <<pipeVars, loaderVars, reidVars>>

\* processFax: the first update, status processing
MarkProcessing(r) ==
  LET run == runs[r]
  IN  /\ run.pc = "queued"
      /\ faxes' = [faxes EXCEPT ![run.faxId] =
                     [@ EXCEPT !.status = "processing",
                               !.errorMessage = IF run.handler = "reprocess"
                                                THEN "null" ELSE @]]
      /\ runs' = [runs EXCEPT ![r].pc =
                    IF run.handler = "manual" THEN "classified" ELSE "processing"]
      /\ UNCHANGED <<env, backendCalls>>
      /\ UNCHANGED <<pipeVars, loaderVars, reidVars>>

\* processFax: the text is extracted (webhook), the document is classified
\* and the record updated; the webhook run fails when no text is extracted
Classify(r) ==
  LET run == runs[r]
  IN  /\ run.pc = "processing"
      /\ \/ /\ faxes' = [faxes EXCEPT ![run.faxId] =
                           [@ EXCEPT !.documentType = "classified",
                                     !.rawText = IF run.handler = "webhook"
                                                 THEN run.raw ELSE @]]
            /\ runs' = [runs EXCEPT ![r].pc = "classified"]
         \/ /\ run.handler = "webhook"
            /\ runs' = [runs EXCEPT ![r].pc = "thrown"]
            /\ UNCHANGED faxes
      /\ UNCHANGED <<env, backendCalls>>
      /\ UNCHANGED <<pipeVars, loaderVars, reidVars>>

\* processFax: the text to process is chosen, de-identified unless local AI is used
Deidentify(r) ==
  LET run == runs[r]
  IN  /\ run.pc = "classified"
      /\ IF useLocalAI(run.provider)
         THEN runs' = [runs EXCEPT ![r] =
                         [run EXCEPT !.pc = "ready", !.textToProcess = run.raw]]
         ELSE \E deidentified \in DeidentifyOutcomes[run.raw] :
                runs' = [runs EXCEPT ![r] =
                           [run EXCEPT !.pc = "ready", !.deidentified = TRUE,
                                       !.deid = deidentified,
                                       !.textToProcess = deidentified.text,
                                       !.redactions = deidentified.redactions]]
      /\ UNCHANGED <<env, faxes, backendCalls>>
      /\ UNCHANGED <<pipeVars, loaderVars, reidVars>>

\* processFax posts to /api/generate; the endpoint selects the backend and
\* calls it, or answers with an error status
SendRequest(r) ==
  LET run == runs[r]
      backend == GenerateBackend(run.textToProcess, run.provider, env)
  IN  /\ run.pc = "ready"
      /\ IF backend \in {"claude", "openai", "ollama"}
         THEN /\ backendCalls' = Append(backendCalls,
                   [run |-> r, backend |-> backend, text |-> run.textToProcess])
              /\ runs' = [runs EXCEPT ![r] =
                            [run EXCEPT !.pc = "generating", !.requestSent = TRUE,
                                        !.requestText = run.textToProcess,
                                        !.backend = backend]]
         ELSE /\ runs' = [runs EXCEPT ![r] =
                            [run EXCEPT !.pc = "thrown", !.requestSent = TRUE,
                                        !.requestText = run.textToProcess,
                                        !.backend = backend]]
              /\ UNCHANGED backendCalls
      /\ UNCHANGED <<env, faxes>>
      /\ UNCHANGED <<pipeVars, loaderVars, reidVars>>

\* a variant without "if (!generateResponse.ok) throw"
AfterResponseIgnoringStatus(ok) == "responded"

\* processFax after the response has arrived: it goes on when the response
\* is OK and throws otherwise
AfterResponse(ok) == IF ok THEN "responded" ELSE "thrown"

\* the backend answers and the endpoint responds: 200 with the sections, or
\* 500 with an error body that has no sections
BackendResponds(r) ==
  LET run == runs[r]
  IN  /\ run.pc = "generating"
      /\ \/ \E answer \in AIAnswers(run.requestText) :
              runs' = [runs EXCEPT ![r] =
                         [run EXCEPT !.pc = AfterResponse(TRUE), !.ok = TRUE,
                                     !.answer = answer]]
         \/ runs' = [runs EXCEPT ![r].pc = AfterResponse(FALSE)]
      /\ UNCHANGED <<env, faxes, backendCalls>>
      /\ UNCHANGED <<pipeVars, loaderVars, reidVars>>

\* whether processFax re-identifies the response
Reidentifies(run) ==
  IF run.handler = "webhook" THEN TRUE
  ELSE ~useLocalAI(run.provider) /\ Len(run.redactions) > 0

\* a variant with one ledger for all invocations, a module-level
\* "let redactions" that holds the ledger of the run that sent the latest
\* request
redactionsSharedByRuns(r) == runs[backendCalls[Len(backendCalls)].run].redactions

\* redactions, a local of the invocation r of processFax
redactionsOf(r) == runs[r].redactions

\* finalSections: the sections of the response, re-identified with ledger
\* when processFax re-identifies
finalSections(run, ledger) ==
  IF Reidentifies(run) THEN ReidentifyOutcomes[run.answer, ledger] ELSE run.answer

\* processFax: the response is re-identified and the record completed; the
\* run notes whether and with which ledger it has re-identified, and the
\* sections it has written
Complete(r) ==
  LET run == runs[r]
  IN  /\ run.pc = "responded"
      /\ faxes' = [faxes EXCEPT ![run.faxId] =
                     [@ EXCEPT !.status = "completed",
                               !.sections = finalSections(run, redactionsOf(r))]]
      /\ runs' = [runs EXCEPT ![r] =
                    [run EXCEPT !.pc = "done",
                                !.reidentified = Reidentifies(run),
                                !.ledgerUsed = IF Reidentifies(run)
                                               THEN redactionsOf(r) ELSE <<>>,
                                !.written = faxes'[run.faxId].sections]]
      /\ UNCHANGED <<env, backendCalls>>
      /\ UNCHANGED <<pipeVars, loaderVars, reidVars>>

\* a variant of the catch block that logs the error and updates nothing
FailWithoutUpdate(r) ==
  /\ runs[r].pc = "thrown"
  /\ runs' = [runs EXCEPT ![r].pc = "done"]
  /\ UNCHANGED <<env, faxes, backendCalls>>
  /\ UNCHANGED <<pipeVars, loaderVars, reidVars>>

\* processFax: the catch block, status failed with the error's message
Fail(r) ==
  LET run == runs[r]
  IN  /\ run.pc = "thrown"
      /\ faxes' = [faxes EXCEPT ![run.faxId] =
                     [@ EXCEPT !.status = "failed", !.errorMessage = "error"]]
      /\ runs' = [runs EXCEPT ![r].pc = "done"]
      /\ UNCHANGED <<env, backendCalls>>
      /\ UNCHANGED <<pipeVars, loaderVars, reidVars>>

(***************************************************************************)
(* Calls of the re-identification functions.  A call is made with the      *)
(* ledger of one de-identified document and an answer of the AI: a text    *)
(* for reidentify, a sections object for reidentifySections, a metadata    *)
(* object (or none) for reidentifyMetadata.                                *)
(***************************************************************************)
MaxReidLen == 4

ReidVocabulary == {"[DATE]", "[DOB]", "[PATIENT]", "[ADDRESS]", "[AGE 90+]", "Ann"}

ReidTexts ==
  TextsOver(ReidVocabulary, MaxReidLen) \cup {<<"Patient", ":", "Data", "Ann">>}

\* the strings of the structured answers
SectionTexts == {<<"seen">>, <<"DOB", ":", "[DOB]">>, <<"[DATE]", "[DATE]", "[DATE]">>}

\* a number, a boolean and null
NonStringLeaves == {JSLeaf("number", "3"), JSLeaf("boolean", "true"), JSLeaf("null", "null")}

\* { summary: a, sources: [b, leaf], details: { note: b }, extra: leaf }
SectionsInputs ==
  { JSObject(<< [key |-> "summary", value |-> JSString(a)],
                [key |-> "sources", value |-> JSArray(<<JSString(b), leaf>>)],
                [key |-> "details",
                 value |-> JSObject(<<[key |-> "note", value |-> JSString(b)]>>)],
                [key |-> "extra", value |-> leaf] >>) :
      a \in SectionTexts, b \in SectionTexts, leaf \in NonStringLeaves }

\* no metadata, null, and { patientName: a, pageCount: leaf }
MetadataInputs ==
  { Undefined, JSLeaf("null", "null") }
    \cup { JSObject(<< [key |-> "patientName", value |-> JSString(a)],
                       [key |-> "pageCount", value |-> leaf] >>) :
              a \in SectionTexts, leaf \in NonStringLeaves }

ReidInit ==
  /\ \E source \in LedgerSources :
       reidCall = [NoReidCall EXCEPT !.pc = "ready",
                                     !.redactions = deidentifySync(source).redactions]
  /\ text = NoText
  /\ pc = "input"
  /\ regexResult = EmptyResult
  /\ nerResult = EmptyResult
  /\ nerEntities = <<>>
  /\ restored = NoText
  /\ LoaderIdle
  /\ FaxIdle

CallReidentify ==
  /\ reidCall.pc = "ready"
  /\ \E t \in ReidTexts :
       reidCall' = [reidCall EXCEPT !.pc = "returned", !.kind = "reidentify",
                      !.input = JSString(t),
                      !.output = JSString(reidentify(t, reidCall.redactions))]
  /\ UNCHANGED <<pipeVars, loaderVars, faxVars>>

CallReidentifySections ==
  /\ reidCall.pc = "ready"
  /\ \E sections \in SectionsInputs :
       reidCall' = [reidCall EXCEPT !.pc = "returned", !.kind = "reidentifySections",
                      !.input = sections,
                      !.output = reidentifySections(sections, reidCall.redactions)]
  /\ UNCHANGED <<pipeVars, loaderVars, faxVars>>

CallReidentifyMetadata ==
  /\ reidCall.pc = "ready"
  /\ \E metadata \in MetadataInputs :
       reidCall' = [reidCall EXCEPT !.pc = "returned", !.kind = "reidentifyMetadata",
                      !.input = metadata,
                      !.output = reidentifyMetadata(metadata, reidCall.redactions)]
  /\ UNCHANGED <<pipeVars, loaderVars, faxVars>>

(***************************************************************************)
(* Properties of the regex pass and of re-identification.                  *)
(***************************************************************************)
\* the tokens of a text that are identifier values (names and dates)
IdentifierTokens == {"Ann", "Lee"} \cup DateTokens
IdentifierValues(t) == SelectSeq(t, LAMBDA tok : tok \in IdentifierTokens)

\* C7: round trip on identity.  After reidentify of deidentifySync's own
\* output with its own ledger, the restored text carries the same identifier
\* values (names and dates), in the same order, as the input text.
RoundTripRestoresIdentifiers ==
  pc = "restored" => IdentifierValues(restored) = IdentifierValues(text)

\* the types of the structured patterns: record number, birth date, phone
\* number and date
StructuredTypes == {"MRN", "DOB", "PHONE", "DATE"}

AgeRecords(redactions) == SelectSeq(redactions, LAMBDA r : r.type = "AGE_90+")

\* C18: age threshold.  For every integer age a in 0..199 written with an
\* age indicator, deidentifySync replaces the expression by [AGE 90+], with
\* one AGE_90+ record for it, if a >= 90; if a < 90 the text is returned
\* unchanged and the ledger holds no AGE_90+ record.
AgeRedactedFromNinety ==
  pc = "regex" =>
    \A prefix \in AgePrefixes, a \in 0..MaxWrittenAge, form \in AgeForms :
      text = prefix \o Digits(a) \o form =>
        IF a >= 90
        THEN /\ regexResult.text = prefix \o <<"[AGE 90+]">>
             /\ Len(AgeRecords(regexResult.redactions)) = 1
             /\ AgeRecords(regexResult.redactions)[1].original = Digits(a) \o form
        ELSE /\ regexResult.text = text
             /\ Len(AgeRecords(regexResult.redactions)) = 0

\* C18 witness: "seen 90 yo" was de-identified to "seen [AGE 90+]"
AgeNinetyWasRedacted ==
  /\ pc = "regex"
  /\ text = <<"seen", "9", "0", "yo">>
  /\ regexResult.text = <<"seen", "[AGE 90+]">>

\* the number of the occurrence of token t[i] in t, counted from the left
Occurrence(t, i) == Cardinality({j \in 1..i : t[j] = t[i]})

\* the recorded values of the category of a placeholder token
RecordedValues(map, token) ==
  IF EntryIndex(map, <<token>>) = 0 THEN <<>>
  ELSE map[EntryIndex(map, <<token>>)].values

RECURSIVE SubstituteInTextOrder(_, _, _)
\* the text in which the k-th occurrence of every placeholder with n >= 1
\* recorded values is the value at index (k-1) mod n, from token i on
SubstituteInTextOrder(t, map, i) ==
  IF i > Len(t) THEN <<>>
  ELSE (IF RecordedValues(map, t[i]) = <<>> THEN <<t[i]>>
        ELSE RecordedValues(map, t[i])[((Occurrence(t, i) - 1)
                                          % Len(RecordedValues(map, t[i]))) + 1])
       \o SubstituteInTextOrder(t, map, i + 1)

\* every key of the map is one placeholder token
KeysArePlaceholders(map) ==
  \A k \in 1..Len(map) :
    Len(map[k].placeholder) = 1 /\ map[k].placeholder[1] \in BracketTokens

ReturnedFrom(kind) == reidCall.pc = "returned" /\ reidCall.kind = kind

\* C12: in one reidentify call whose ledger gives placeholder categories
\* only, the k-th occurrence (left to right) of a placeholder with n >= 1
\* recorded values in the text is replaced by the value at index (k-1) mod n
\* of the ordered values of its category, every other token being kept.
CyclicSubstitutionInTextOrder ==
  (ReturnedFrom("reidentify")
     /\ KeysArePlaceholders(buildReidentificationMap(reidCall.redactions)))
    => reidCall.output.str
         = SubstituteInTextOrder(reidCall.input.str,
                                 buildReidentificationMap(reidCall.redactions), 1)

\* the placeholder tokens for which the map records no value
WithoutValue(map) == {b \in BracketTokens : RecordedValues(map, b) = <<>>}

\* the tokens of t that are in S, in their order
Restrict(t, S) == SelectSeq(t, LAMBDA x : x \in S)

RECURSIVE IsSubsequence(_, _)
IsSubsequence(a, b) ==
  IF a = <<>> THEN TRUE
  ELSE IF b = <<>> THEN FALSE
  ELSE IF a[1] = b[1] THEN IsSubsequence(Tail(a), Tail(b))
  ELSE IsSubsequence(a, Tail(b))

TextWithoutPlaceholderIsUnchanged ==
  (ReturnedFrom("reidentify")
     /\ \A k \in 1..Len(reidCall.input.str) : reidCall.input.str[k] \notin BracketTokens)
    => reidCall.output = reidCall.input

\* the keys of an object, in the order of its entries
KeysOf(object) == [k \in 1..Len(object.items) |-> object.items[k].key]

\* out is what a re-identification function may store for the value in:
\* a string for a string, an array of the same length whose non-string
\* items are the items of in (when arrays are mapped), in itself otherwise
KeepsNonStrings(in, out, mapsArrays) ==
  IF in.kind = "string" THEN out.kind = "string"
  ELSE IF in.kind = "array" /\ mapsArrays
  THEN /\ out.kind = "array"
       /\ Len(out.items) = Len(in.items)
       /\ \A k \in 1..Len(in.items) :
            IF in.items[k].kind = "string" THEN out.items[k].kind = "string"
            ELSE out.items[k] = in.items[k]
  ELSE out = in

\* C15: reidentifySections and reidentifyMetadata return an object with
\* exactly the keys of their input, in which every value that is not a
\* string (a number, a boolean, null, a non-string item of an array) is the
\* input's value; reidentifyMetadata without metadata returns undefined;
\* every call returns.
StructureAndNonStringsPreserved ==
  /\ ReturnedFrom("reidentifySections")
       => /\ reidCall.output.kind = "object"
          /\ KeysOf(reidCall.output) = KeysOf(reidCall.input)
          /\ \A k \in 1..Len(reidCall.input.items) :
               KeepsNonStrings(reidCall.input.items[k].value,
                               reidCall.output.items[k].value, TRUE)
  /\ (ReturnedFrom("reidentifyMetadata") /\ reidCall.input.kind = "object")
       => /\ reidCall.output.kind = "object"
          /\ KeysOf(reidCall.output) = KeysOf(reidCall.input)
          /\ \A k \in 1..Len(reidCall.input.items) :
               KeepsNonStrings(reidCall.input.items[k].value,
                               reidCall.output.items[k].value, FALSE)
  /\ (ReturnedFrom("reidentifyMetadata") /\ reidCall.input.kind # "object")
       => reidCall.output = Undefined

\* C15 witness: reidentifySections has restored the summary of an object
\* whose array holds a number and whose last value is a boolean, and both
\* are in the result as they were.
NonStringsWereKeptNextToARestoredString ==
  /\ ReturnedFrom("reidentifySections")
  /\ reidCall.input.items[1].value = JSString(<<"DOB", ":", "[DOB]">>)
  /\ reidCall.output.items[1].value = JSString(<<"DOB", ":", "01/02/2020">>)
  /\ reidCall.output.items[2].value.items[2] = JSLeaf("boolean", "true")
  /\ reidCall.output.items[4].value = JSLeaf("boolean", "true")

RECURSIVE StringsIn(_)
\* the strings reachable in a value: the value itself, the items of an
\* array, the values of an object, at any depth
StringsIn(value) ==
  IF value.kind = "string" THEN {value.str}
  ELSE IF value.kind = "array"
  THEN UNION {StringsIn(value.items[k]) : k \in 1..Len(value.items)}
  ELSE IF value.kind = "object"
  THEN UNION {StringsIn(value.items[k].value) : k \in 1..Len(value.items)}
  ELSE {}

\* C16: in the result of reidentifySections no reachable string (a
\* top-level string, a string item of a list, a string inside a nested
\* key/value map) still holds a placeholder for which the ledger records a
\* value.
NestedStringsAreRestored ==
  ReturnedFrom("reidentifySections")
    => \A str \in StringsIn(reidCall.output) :
         \A k \in 1..Len(str) :
           RecordedValues(buildReidentificationMap(reidCall.redactions), str[k]) = <<>>

\* out is the value in with each of its strings (the value itself, or the
\* string items of a list when lists are mapped) re-identified by a call of
\* its own, every cursor starting at the first recorded value
RestoredIndependently(in, out, redactions, mapsArrays) ==
  IF in.kind = "string" THEN out = JSString(reidentify(in.str, redactions))
  ELSE IF in.kind = "array" /\ mapsArrays
  THEN /\ out.kind = "array"
       /\ Len(out.items) = Len(in.items)
       /\ \A k \in 1..Len(in.items) :
            in.items[k].kind = "string"
              => out.items[k] = JSString(reidentify(in.items[k].str, redactions))
  ELSE TRUE

\* the value stored under key in an object, Undefined when the key is absent
ValueAt(object, key) ==
  IF \E k \in 1..Len(object.items) : object.items[k].key = key
  THEN object.items[CHOOSE k \in 1..Len(object.items) : object.items[k].key = key].value
  ELSE Undefined

\* C28: the per-category cursor is not shared across the values of
\* reidentifySections and reidentifyMetadata.  Each string value and each
\* string item of a list is what reidentify returns for it alone, and the
\* value returned under a key is the same for every sections object that
\* holds the same value under that key, whatever the other sections hold.
CursorIsNotSharedAcrossValues ==
  /\ ReturnedFrom("reidentifySections")
       => /\ \A k \in 1..Len(reidCall.input.items) :
               RestoredIndependently(reidCall.input.items[k].value,
                                     reidCall.output.items[k].value,
                                     reidCall.redactions, TRUE)
          /\ \A other \in SectionsInputs :
               \A key \in {"summary", "sources"} :
                 ValueAt(other, key) = ValueAt(reidCall.input, key)
                   => ValueAt(reidentifySections(other, reidCall.redactions), key)
                        = ValueAt(reidCall.output, key)
  /\ (ReturnedFrom("reidentifyMetadata") /\ reidCall.input.kind = "object")
       => \A k \in 1..Len(reidCall.input.items) :
            RestoredIndependently(reidCall.input.items[k].value,
                                  reidCall.output.items[k].value,
                                  reidCall.redactions, FALSE)

\* C28 witness: two sections with three date placeholders each, restored
\* from a ledger with two dates; both start again at the first date
BothSectionsStartAtTheFirstDate ==
  /\ ReturnedFrom("reidentifySections")
  /\ ValueAt(reidCall.input, "summary") = JSString(<<"[DATE]", "[DATE]", "[DATE]">>)
  /\ ValueAt(reidCall.output, "summary")
       = JSString(<<"01/02/2020", "03/04/2021", "01/02/2020">>)
  /\ ValueAt(reidCall.output, "sources").items[1]
       = JSString(<<"01/02/2020", "03/04/2021", "01/02/2020">>)

RECURSIVE WorkingText(_, _)
\* the accumulated result when pattern number k is about to be applied
WorkingText(k, input) ==
  IF k = 1 THEN input
  ELSE ReplaceAll(PHI_PATTERNS[k - 1].pattern, WorkingText(k - 1, input), 1)

\* the substitutions pattern number k performs in the working text
SubstitutionsOf(k, input) ==
  LET ms == ExecAll(PHI_PATTERNS[k].pattern, WorkingText(k, input), 1)
  IN  {[original    |-> ms[j].matched,
        replacement |-> ReplacementOf(PHI_PATTERNS[k].pattern, ms[j].matched, ms[j].m)]
         : j \in 1..Len(ms)}

\* the types of the patterns that substituted something in the working text
SubstitutedTypes(input) ==
  {PHI_PATTERNS[k].type : k \in {n \in 1..Len(PHI_PATTERNS) :
     \E sub \in SubstitutionsOf(n, input) : sub.replacement # sub.original}}

\* the priority class of a pattern: 1 for the explicitly labeled structured
\* patterns (MRN, DOB, labeled patient and provider names, account
\* numbers), 2 for the format patterns (phone, date, address), 3 for the
\* age of 90 and over
PriorityClass(pattern) ==
  CASE pattern \in {"MRN_LABELED", "DOB_NUMERIC", "PATIENT_LABELED", "PROVIDER_LABELED",
                    "PROVIDER_DR", "PROVIDER_PCP", "ACCOUNT_LABELED"} -> 1
    [] pattern \in {"PHONE_LABELED", "PHONE_PAREN", "PHONE_DASHES", "DATE_LABELED",
                    "DATE_MDY", "ADDRESS_LABELED"} -> 2
    [] OTHER -> 3

\* C22: the regex pass applies the patterns in priority order: every
\* explicitly labeled structured pattern before every format pattern, and
\* the age pattern after those.  (The pass applies pattern number i before
\* pattern number j exactly when i < j.)
PatternsAppliedInPriorityOrder ==
  pc = "regex" =>
    \A i, j \in 1..Len(PHI_PATTERNS) :
      i < j => PriorityClass(PHI_PATTERNS[i].pattern) <= PriorityClass(PHI_PATTERNS[j].pattern)

\* the numbers of the records of the ledger whose placeholder is key and
\* whose extracted value is v
RecordsGiving(redactions, key, v) ==
  {j \in 1..Len(redactions) :
     PlaceholderKey(redactions[j].replacement) = key /\ ValueOf(redactions[j]) = v}

\* the first of a non-empty set of numbers
Min(S) == CHOOSE x \in S : \A y \in S : x <= y

\* vs is the list of the values the ledger gives for key: every value that
\* is not empty and does not start with a bracket, once, in the order of
\* first appearance
IsValueListOf(vs, key, redactions) ==
  /\ \A a \in 1..Len(vs) :
       /\ vs[a] # NoText
       /\ vs[a][1] \notin BracketTokens
       /\ RecordsGiving(redactions, key, vs[a]) # {}
  /\ \A a, b \in 1..Len(vs) :
       a < b => /\ vs[a] # vs[b]
                /\ Min(RecordsGiving(redactions, key, vs[a]))
                     < Min(RecordsGiving(redactions, key, vs[b]))
  /\ \A j \in 1..Len(redactions) :
       (/\ PlaceholderKey(redactions[j].replacement) = key
        /\ ValueOf(redactions[j]) # NoText
        /\ ValueOf(redactions[j])[1] \notin BracketTokens)
         => \E a \in 1..Len(vs) : vs[a] = ValueOf(redactions[j])

\* the map is the map of the ledger: one entry for each placeholder of the
\* ledger, with the list of its values
IsMapOf(map, redactions) ==
  /\ \A a, b \in 1..Len(map) : a # b => map[a].placeholder # map[b].placeholder
  /\ \A j \in 1..Len(redactions) :
       \E a \in 1..Len(map) : map[a].placeholder = PlaceholderKey(redactions[j].replacement)
  /\ \A a \in 1..Len(map) :
       /\ \E j \in 1..Len(redactions) :
            map[a].placeholder = PlaceholderKey(redactions[j].replacement)
       /\ IsValueListOf(map[a].values, map[a].placeholder, redactions)

\* the record's replacement holds a placeholder for which the record gives a value
GivesValue(r) ==
  /\ PlaceholderKey(r.replacement) # r.replacement \/ r.replacement \in {<<b>> : b \in BracketTokens}
  /\ ValueOf(r) # NoText
  /\ ValueOf(r)[1] \notin BracketTokens

\* C24: for every record of the ledger the value stored in the map is the
\* part of the record's original for which the placeholder in its
\* replacement stands: the replacement with the value in place of the
\* placeholder is the original (no label, title or credential twice).
StoredValueIsWhatThePlaceholderStandsFor ==
  pc = "restored" =>
    \A j \in 1..Len(regexResult.redactions) :
      GivesValue(regexResult.redactions[j]) =>
        ReplaceFirst(regexResult.redactions[j].replacement,
                     PlaceholderKey(regexResult.redactions[j].replacement),
                     ValueOf(regexResult.redactions[j]))
          = regexResult.redactions[j].original

\* C23: the map that reidentify builds from a ledger gives, for each
\* placeholder category of the ledger, the extracted values in the order of
\* their first appearance in the ledger, none of them twice, and none of
\* them empty or starting with a bracket.
MapListsDistinctValuesInLedgerOrder ==
  pc = "restored"
    => IsMapOf(buildReidentificationMap(regexResult.redactions), regexResult.redactions)

\* C23 witness: the ledger of '01/02/2020 03/04/2021 01/02/2020' has three
\* [DATE] records; the list of [DATE] is 01/02/2020, 03/04/2021.
RepeatedDateIsListedOnce ==
  /\ pc = "restored"
  /\ text = <<"01/02/2020", "03/04/2021", "01/02/2020">>
  /\ Len(regexResult.redactions) = 3
  /\ buildReidentificationMap(regexResult.redactions)
       = << [placeholder |-> <<"[DATE]">>,
             values |-> << <<"01/02/2020">>, <<"03/04/2021">> >>] >>

\* the last line of the test input
ComplaintLine == <<"Chief", "Complaint", ":", "Chest", "pain", "x", "2", "days">>

\* C17: the summary of the ledger of deidentifySync names every kind of
\* identifier that was substituted in the text exactly once and names no
\* other kind; for the input of the test case 'Basic patient info' it names
\* 4 categories, the output holds [PATIENT], [DOB], [MRN] and [PHONE], and
\* the complaint line is unchanged.
SummaryNamesTheSubstitutedKinds ==
  pc = "regex" =>
    LET summary == summarizeRedactions(regexResult.redactions)
    IN  /\ {summary[k].type : k \in 1..Len(summary)} = SubstitutedTypes(text)
        /\ \A k, n \in 1..Len(summary) : summary[k].type = summary[n].type => k = n
        /\ text = BasicPatientInfo =>
              /\ Len(summary) = 4
              /\ \A ph \in {"[PATIENT]", "[DOB]", "[MRN]", "[PHONE]"} :
                    InSeq(ph, regexResult.text)
              /\ IndexOfSub(regexResult.text, ComplaintLine) # 0

\* C8: after the regex pass every record of the ledger describes a
\* substitution that took place in the working text: its replacement differs
\* from its original, and a pattern of its type replaced that original by
\* that replacement in the working text (no record for an unchanged match or
\* for a match found only in text an earlier pattern had rewritten).
EveryRecordIsASubstitution ==
  pc \in {"regex", "restored"} =>
    \A j \in 1..Len(regexResult.redactions) :
      LET r == regexResult.redactions[j]
      IN  /\ r.replacement # r.original
          /\ \E k \in 1..Len(PHI_PATTERNS) :
               /\ PHI_PATTERNS[k].type = r.type
               /\ [original |-> r.original, replacement |-> r.replacement]
                    \in SubstitutionsOf(k, text)

\* sq begins with the sequence pre
IsPrefix(pre, sq) == Len(pre) <= Len(sq) /\ SubSeq(sq, 1, Len(pre)) = pre

\* the records the NER pass appended to the ledger of the regex pass
NerRecords == SubSeq(nerResult.redactions, Len(regexResult.redactions) + 1,
                     Len(nerResult.redactions))

\* C9: ledger-text consistency.  Every record of the regex pass has as
\* original the slice [start, end) of the text the patterns were scanned
\* against, and every record the NER pass appended has as original the slice
\* [start, end) of the regex-redacted text given to that pass.
LedgerTextConsistency ==
  /\ pc \in {"regex", "ner"} =>
       \A j \in 1..Len(regexResult.redactions) :
         LET r == regexResult.redactions[j]
         IN  Slice(text, r.start, r.end) = r.original
  /\ pc = "ner" =>
       \A j \in 1..Len(NerRecords) :
         LET r == NerRecords[j]
         IN  Slice(regexResult.text, r.start, r.end) = r.original

\* C9 witness: a run whose ledger holds a record of the regex pass scanned
\* after an earlier pattern had rewritten the text, and a record of the NER pass
LedgerHasRegexAndNerRecords ==
  /\ pc = "ner"
  /\ Len(regexResult.redactions) >= 2
  /\ Len(NerRecords) >= 1
  /\ regexResult.text # text

RelevantOf(entities) == SelectSeq(entities, LAMBDA e : e.entity \in RelevantTags)

\* the tokens that open a span: the first one, a begin marker, a class other
\* than the class of the token before
SpanStarts(relevant) ==
  {k \in 1..Len(relevant) :
     \/ k = 1
     \/ IsBeginning(relevant[k].entity)
     \/ EntityType(relevant[k].entity) # EntityType(relevant[k - 1].entity)}

\* the last token of the span opened at token k
SpanLast(relevant, k) ==
  Max({m \in k..Len(relevant) : \A i \in (k + 1)..m : i \notin SpanStarts(relevant)})

\* grouped is the sequence of spans of relevant: one span per opening token,
\* in order, of the opening token's class, from its start to the end of the
\* last token before the next opening token
IsGroupingOf(grouped, relevant) ==
  /\ Len(grouped) = Cardinality(SpanStarts(relevant))
  /\ \A k \in SpanStarts(relevant) :
       grouped[Cardinality({s \in SpanStarts(relevant) : s <= k})]
         = [type  |-> EntityType(relevant[k].entity),
            start |-> relevant[k].start,
            end   |-> relevant[SpanLast(relevant, k)].end]

\* C26: NER grouping.  Tokens of other classes are ignored; among the
\* person, location and organisation tokens a begin marker starts a new
\* span, a continuation of the current span's class extends it, a token of
\* a different class closes it and starts a new one, and each span runs
\* from its first token's start to its last token's end.
GroupingFollowsMarkersAndClasses ==
  pc = "ner" =>
    IsGroupingOf(GroupFrom(RelevantOf(nerEntities), 1, NoEntity, <<>>),
                 RelevantOf(nerEntities))

\* C26 witness: a begin marker followed by a continuation of the same class,
\* merged into one name over both words
ContinuationExtendedTheSpan ==
  /\ pc = "ner"
  /\ text = <<"Ann", "Lee", "DOB">>
  /\ nerEntities = <<[entity |-> "B-PER", start |-> 0, end |-> 1],
                     [entity |-> "I-PER", start |-> 1, end |-> 2]>>
  /\ nerResult.text = <<"[NAME]", "DOB">>

\* the grouped entities that applyNER replaces: not dropped by the overlap
\* filter, not skipped as too short or as looking redacted
SurvivingEntities ==
  SelectSeq(GroupFrom(RelevantOf(nerEntities), 1, NoEntity, <<>>),
            LAMBDA e : /\ ~OverlapsExisting(e, regexResult.redactions)
                       /\ ~IsShort(Slice(regexResult.text, e.start, e.end))
                       /\ ~LooksRedacted(Slice(regexResult.text, e.start, e.end)))

RECURSIVE SpansReplaced(_, _, _, _)
\* the text t from offset from on, read left to right, with the span of each
\* of the records j, j + 1, ... replaced by the record's replacement
SpansReplaced(t, records, j, from) ==
  IF j > Len(records) THEN Slice(t, from, Len(t))
  ELSE Slice(t, from, records[j].start) \o records[j].replacement
         \o SpansReplaced(t, records, j + 1, records[j].end)

\* C27: the NER pass returns the incoming ledger unchanged as a prefix,
\* followed by one record per surviving entity in ascending start order,
\* each with the placeholder of its class; and its text is the text it was
\* given with exactly the span of each surviving entity replaced by that
\* placeholder.
NerReplacementsLandOnTheirSpans ==
  pc = "ner" /\ regexResult # EmptyResult =>
    /\ IsPrefix(regexResult.redactions, nerResult.redactions)
    /\ Len(NerRecords) = Len(SurvivingEntities)
    /\ \A j \in 1..Len(NerRecords) :
         LET r == NerRecords[j]
             e == SurvivingEntities[j]
         IN  /\ r.start = e.start /\ r.end = e.end
             /\ r.replacement = <<CASE e.type = "PER" -> "[NAME]"
                                    [] e.type = "LOC" -> "[LOCATION]"
                                    [] e.type = "ORG" -> "[ORG]">>
             /\ j > 1 => NerRecords[j - 1].start < r.start
    /\ nerResult.text = SpansReplaced(regexResult.text, NerRecords, 1, 0)

\* C27 witness: a two-word name and a location replaced behind a date the
\* regex pass had redacted
NameAndLocationReplacedBehindADate ==
  /\ pc = "ner"
  /\ text = <<"01/02/2020", "Ann", "Lee">>
  /\ Len(regexResult.redactions) = 1
  /\ nerEntities = <<[entity |-> "B-PER", start |-> 1, end |-> 2],
                     [entity |-> "B-LOC", start |-> 2, end |-> 3]>>
  /\ nerResult.text = <<"[DATE]", "[NAME]", "[LOCATION]">>
  /\ Len(NerRecords) = 2

\* a text whose tokens carry the mark "written by a replacement"
Unmarked(t) == [k \in 1..Len(t) |-> [tok |-> t[k], rewritten |-> FALSE]]
Tokens(mt) == [k \in 1..Len(mt) |-> mt[k].tok]

RECURSIVE TraceReplace(_, _, _)
\* ReplaceAll on a marked text: the tokens of a replacement that changes its
\* match are marked, and hit tells whether a match covered a marked token
TraceReplace(p, mt, i) ==
  IF i > Len(mt) THEN [marked |-> <<>>, hit |-> FALSE]
  ELSE LET m == MatchAt(p, Tokens(mt), i)
       IN  IF m.len = 0
           THEN LET rest == TraceReplace(p, mt, i + 1)
                IN  [marked |-> <<mt[i]>> \o rest.marked, hit |-> rest.hit]
           ELSE LET matched == SubSeq(Tokens(mt), i, i + m.len - 1)
                    rep     == ReplacementOf(p, matched, m)
                    rest    == TraceReplace(p, mt, i + m.len)
                IN  [marked |-> (IF rep = matched
                                 THEN SubSeq(mt, i, i + m.len - 1)
                                 ELSE [k \in 1..Len(rep) |->
                                         [tok |-> rep[k], rewritten |-> TRUE]])
                                \o rest.marked,
                     hit |-> \/ \E j \in i..(i + m.len - 1) : mt[j].rewritten
                             \/ rest.hit]

RECURSIVE TraceFrom(_, _)
\* whether pattern number k or a later one matches a token that an earlier
\* pattern wrote
TraceFrom(k, mt) ==
  IF k > Len(PHI_PATTERNS) THEN FALSE
  ELSE LET step == TraceReplace(PHI_PATTERNS[k].pattern, mt, 1)
       IN  step.hit \/ TraceFrom(k + 1, step.marked)

\* C10: placeholder well-formedness.  For any input, no pattern of the
\* regex pass matches text that an earlier pattern has already rewritten,
\* so no placeholder of the output is the product of pattern interaction.
NoPatternMatchesRewrittenText ==
  pc \in {"regex", "restored"} => ~TraceFrom(1, Unmarked(text))

(***************************************************************************)
(* Properties of the model loader and of deidentify under concurrency.     *)
(***************************************************************************)
DoneCalls(kinds) == {c \in Callers : calls[c].pc = "done" /\ calls[c].kind \in kinds}

RECURSIVE RecordsOfFirst(_, _)
\* the records of the first k patterns of the library scanned against input
RecordsOfFirst(k, input) ==
  IF k = 0 THEN <<>> ELSE RecordsOfFirst(k - 1, input) \o RecordsOf(k, input)

\* C21: a deidentify call that has called the model loader holds the result
\* of the regex pass with every pattern of the library applied, in the
\* order of the library; the result it returns is made by the NER pass from
\* that text and that ledger: the regex ledger is its prefix, and its text
\* is the regex-redacted text, as it is or with entities replaced in it.
RegexPassCompleteBeforeNerPass ==
  \A c \in Callers :
    (calls[c].kind = "deidentify" /\ calls[c].branch # "none") =>
      /\ calls[c].ranRegex
      /\ calls[c].regex.text = WorkingText(Len(PHI_PATTERNS) + 1, calls[c].input)
      /\ calls[c].regex.redactions = RecordsOfFirst(Len(PHI_PATTERNS), calls[c].input)
      /\ calls[c].pc = "done" =>
           /\ IsPrefix(calls[c].regex.redactions, calls[c].result.redactions)
           /\ \/ calls[c].result = calls[c].regex
              \/ \E entities \in InferenceOutputs(Len(calls[c].regex.text)) :
                   calls[c].result = applyNEREntities(calls[c].regex.text,
                                       calls[c].regex.redactions, entities)

\* C21 witness: a call has returned the text in which the regex pass put
\* [DOB] and the NER pass, after it, [NAME], with the records in that order.
NerPassWorkedOnRegexResult ==
  \E c \in Callers :
    /\ calls[c].kind = "deidentify"
    /\ calls[c].pc = "done"
    /\ calls[c].failure = "none"
    /\ calls[c].input = <<"Ann", "DOB", "01/02/2020">>
    /\ calls[c].regex.text = <<"Ann", "DOB", ":", "[DOB]">>
    /\ calls[c].result.text = <<"[NAME]", "DOB", ":", "[DOB]">>
    /\ calls[c].result.redactions[1].type = "DOB"
    /\ calls[c].result.redactions[Len(calls[c].result.redactions)].type = "NAME"

\* C2: whenever the NER stage fails (the awaited model load is rejected, or
\* inference throws), deidentify returns exactly what deidentifySync returns
\* for the same text: the same text and the same ledger.  This includes the
\* calls made after both model loads have failed.
DegradesToRegexOnly ==
  \A c \in DoneCalls({"deidentify"}) :
    calls[c].failure # "none" => calls[c].result = deidentifySync(calls[c].input)

\* C2 witness: both loads have failed, and a deidentify call made after that
\* has returned a text with a non-empty ledger
LaterCallAfterBothLoadsFailed ==
  \E c \in DoneCalls({"deidentify"}) :
    /\ calls[c].failure = "load"
    /\ calls[c].branch = "shared"
    /\ ~calls[c].inFlightAtCall
    /\ Len(loads) = 2
    /\ calls[c].awaits = 2
    /\ calls[c].result.redactions # <<>>

PendingLoads == {id \in 1..Len(loads) : loads[id].state = "pending"}

\* C3: at most one model load is in flight at any time, it is the stored
\* one, and a caller that arrived while a load was in flight awaits a stored
\* load and has started none itself.
AtMostOneLoadInFlight ==
  /\ Cardinality(PendingLoads) <= 1
  /\ \A id \in PendingLoads : nerLoadingPromise = id
  /\ \A c \in Callers :
       calls[c].inFlightAtCall =>
         /\ calls[c].branch = "shared"
         /\ \A id \in 1..Len(loads) : loads[id].by # c

\* C3 witness: one caller's load is in flight while two other callers await it
TwoCallersAwaitTheLoadInFlight ==
  \E id \in PendingLoads :
    Cardinality({c \in Callers : /\ calls[c].pc = "awaitShared"
                                 /\ calls[c].awaits = id
                                 /\ calls[c].inFlightAtCall}) >= 2

LoadsOf(model) == {id \in 1..Len(loads) : loads[id].model = model}

\* C4: once a load has resolved no load is started again (a resolved load is
\* the last load), at most one primary and at most one fallback load are
\* ever started, and every handle a caller obtained is the model of the
\* resolved load, equal to the cached handle once it is stored.
HandleCachedForever ==
  /\ Cardinality(LoadsOf("primary")) <= 1
  /\ Cardinality(LoadsOf("fallback")) <= 1
  /\ \A id \in 1..Len(loads) : loads[id].state = "resolved" => id = Len(loads)
  /\ nerPipeline # "null" =>
       /\ loads[Len(loads)].state = "resolved"
       /\ nerPipeline = loads[Len(loads)].model
  /\ \A c \in Callers :
       calls[c].handle # "null" =>
         /\ loads[Len(loads)].state = "resolved"
         /\ calls[c].handle = loads[Len(loads)].model

\* C4 witness: the handle is cached and a later caller, with every caller
\* having called, got that handle from the cache
LaterCallerGetsCachedHandle ==
  /\ nerPipeline # "null"
  /\ \A c \in Callers : calls[c].pc = "done"
  /\ \E c \in Callers : calls[c].branch = "cached" /\ calls[c].handle = nerPipeline

\* C5: when the primary load fails and the fallback load succeeds, the
\* fallback model is the cached handle and no caller of the loader has been
\* failed by it: every caller that waited on the load in flight got a model.
FallbackServesEveryWaiter ==
  (/\ Len(loads) = 2
   /\ loads[1].state = "rejected"
   /\ loads[2].state = "resolved"
   /\ \A c \in Callers : calls[c].pc \in {"idle", "done", "infer"}) =>
    /\ nerPipeline = "fallback"
    /\ \A c \in Callers : calls[c].failure # "load"

\* C6: for empty and for whitespace-only input, deidentify and deidentifySync
\* return the empty text with an empty ledger, and neither the regex pass nor
\* the model loader is invoked.
BlankInputYieldsEmptyResult ==
  \A c \in DoneCalls({"deidentify", "deidentifySync"}) :
    calls[c].input \in {NoText, <<"\n">>} =>
      /\ calls[c].result = EmptyResult
      /\ ~calls[c].ranRegex
      /\ calls[c].branch = "none"

\* C6 witness: deidentify has returned for a whitespace-only text and
\* deidentifySync for a whitespace-only text and for the empty text
BlankInputsWereProcessed ==
  /\ \E c \in DoneCalls({"deidentify"}) : calls[c].input = <<"\n">>
  /\ \E c \in DoneCalls({"deidentifySync"}) : calls[c].input = <<"\n">>
  /\ \E c \in DoneCalls({"deidentifySync"}) : calls[c].input = NoText

RunsReidentifyWithOwnLedger ==
  \A r \in Runs :
    runs[r].reidentified =>
      /\ runs[r].deidentified
      /\ runs[r].ledgerUsed = runs[r].deid.redactions
      /\ \A k \in 1..Len(runs[r].written) :
           runs[r].written[k] \in IdentifierTokens
             => \E j \in 1..Len(runs[r].raw) : runs[r].raw[j] = runs[r].written[k]

\* C19 witness: while the first run, on a document with another date of
\* birth, holds its ledger and waits with its response received, the second
\* run has de-identified its document, re-identified the response and
\* written its own date.
SecondRunRestoredItsOwnDateMeanwhile ==
  /\ runs[1].pc = "responded"
  /\ runs[1].raw = <<"Ann", "DOB", "01/02/2020">>
  /\ Len(runs[1].redactions) > 0
  /\ runs[2].pc = "done"
  /\ runs[2].reidentified
  /\ runs[2].raw = <<"DOB", ":", "03/04/2021">>
  /\ runs[2].answer = <<"DOB", ":", "[DOB]">>
  /\ runs[2].written = <<"DOB", ":", "03/04/2021">>

\* the run r has asked for a generation that failed or was answered non-OK
GenerationFailed(r) == runs[r].requestSent /\ ~runs[r].ok

\* the catch block of such a run leaves the record failed, with an error
\* message and the sections it had
FailureIsRecorded ==
  \A r \in Runs :
    (GenerationFailed(r) /\ runs[r].pc = "thrown" /\ runs'[r].pc = "done")
      => /\ faxes'[runs[r].faxId].status = "failed"
         /\ faxes'[runs[r].faxId].errorMessage # "null"
         /\ faxes'[runs[r].faxId].sections = faxes[runs[r].faxId].sections

\* C20: a run whose generation call failed or was answered non-OK never
\* re-identifies and writes no sections, and its last step leaves the
\* record in status failed with an error message.
FailedGenerationAbandonsRun ==
  /\ [](\A r \in Runs :
          GenerationFailed(r)
            => /\ runs[r].pc \in {"generating", "thrown", "done"}
               /\ ~runs[r].reidentified
               /\ runs[r].written = Null)
  /\ [][FailureIsRecorded]_<<runs, faxes>>

\* C20 witness: the first run has sent de-identified text to an external
\* backend, the generation has failed, and the record is failed with an
\* error message and without sections.
FailedGenerationLeftRecordFailed ==
  /\ runs[1].pc = "done"
  /\ GenerationFailed(1)
  /\ runs[1].backend \in {"claude", "openai"}
  /\ faxes[runs[1].faxId].status = "failed"
  /\ faxes[runs[1].faxId].errorMessage = "error"
  /\ faxes[runs[1].faxId].sections = Null

vars == <<pipeVars, loaderVars, faxVars, reidVars>>

RegexNext == DeidentifySync \/ Reidentify

SpecRegex == RegexInit /\ [][RegexNext]_vars

AgeNext == DeidentifySync

SpecAge == AgeInit /\ [][AgeNext]_vars

NerNext == RegexPass \/ NerPass

SpecNER == NerInit /\ [][NerNext]_vars

LoaderNext ==
  \/ \E c \in Callers : CallDeidentify(c)
  \/ \E c \in Callers : CallDeidentifySync(c)
  \/ \E c \in Callers : CallPreload(c)
  \/ \E id \in 1..Len(loads) : SettleLoad(id)
  \/ \E c \in Callers : ResumeLoader(c)
  \/ \E c \in Callers : Infer(c)

SpecLoader == LoaderInit /\ [][LoaderNext]_vars

ReidNext ==
  \/ CallReidentify
  \/ CallReidentifySections
  \/ CallReidentifyMetadata

SpecReid == ReidInit /\ [][ReidNext]_vars

FaxNext ==
  \/ \E r \in Runs : ReceiveFax(r)
  \/ \E r \in Runs : Reprocess(r)
  \/ \E r \in Runs : MarkProcessing(r)
  \/ \E r \in Runs : Classify(r)
  \/ \E r \in Runs : Deidentify(r)
  \/ \E r \in Runs : SendRequest(r)
  \/ \E r \in Runs : BackendResponds(r)
  \/ \E r \in Runs : Complete(r)
  \/ \E r \in Runs : Fail(r)

SpecFax == FaxInit /\ [][FaxNext]_vars

\* C30: for any interleaving of runs on one fax record, whenever the
\* record's status is completed its errorMessage is null and its sections
\* are those written by a run on that record that has completed.
CompletedRecordHasNoErrorMessage ==
  \A f \in FaxIds :
    faxes[f].status = "completed" =>
      /\ faxes[f].errorMessage = "null"
      /\ \E r \in Runs : /\ runs[r].pc = "done"
                          /\ runs[r].faxId = f
                          /\ runs[r].written = faxes[f].sections

\* a step of the invocation r of processFax
RunStep(r) ==
  \/ MarkProcessing(r)
  \/ Classify(r)
  \/ Deidentify(r)
  \/ SendRequest(r)
  \/ BackendResponds(r)
  \/ Complete(r)
  \/ Fail(r)

\* the runs under the event loop: a scheduled processFax is started, every
\* awaited call returns or throws, and the continuation is then run
\* the requests followed to their end: one fax text, sent without a
\* provider or for the local AI
FollowedRequests ==
  \A r \in Runs : /\ runs[r].raw \in {NoText, <<"DOB", ":", "03/04/2021">>}
                   /\ runs[r].provider \in {"undefined", "ollama"}

FaxNextFollowed == FaxNext /\ FollowedRequests'

SpecFaxFair ==
  FaxInit /\ [][FaxNextFollowed]_vars /\ \A r \in Runs : WF_vars(RunStep(r))

\* the first step of a scheduled run sets its record to processing
FirstStepSetsProcessing ==
  \A r \in Runs :
    (runs[r].pc = "queued" /\ runs'[r].pc # "queued")
      => faxes'[runs[r].faxId].status = "processing"

\* C29: the first step of every scheduled processing run sets the record to
\* processing, and the run eventually ends with the fax record it works on
\* in status completed or failed: no path through de-identification,
\* generation or re-identification ends with the run's record left in
\* status processing.
EveryRunEndsCompletedOrFailed ==
  /\ [][FirstStepSetsProcessing]_<<runs, faxes>>
  /\ \A r \in Runs :
       (runs[r].pc = "queued")
         ~> (runs[r].pc = "done"
             /\ faxes[runs[r].faxId].status \in {"completed", "failed"})

\* C29 witness: two runs have ended, one by the catch block after an error
\* response and one after re-identification, both records out of processing
OneRunFailedOneCompleted ==
  /\ runs[1].pc = "done" /\ runs[1].requestSent /\ ~runs[1].ok
  /\ runs[2].pc = "done" /\ runs[2].reidentified
  /\ runs[1].faxId # runs[2].faxId
  /\ faxes[runs[1].faxId].status = "failed"
  /\ faxes[runs[2].faxId].status = "completed"

====
